---- MODULE Spec2Model ----
(***************************************************************************)
(* A model of the wormpy crawler: the shared URLTracker                    *)
(* (modules/utils/url_tracker.py), the WebsiteScraper workers and the      *)
(* run_scraping orchestration (modules/scraper.py, main.py), the URL       *)
(* helpers (modules/processors/url_processor.py), the retry loop of        *)
(* fetch_page (modules/processors/content_processor.py), the driver of     *)
(* SeleniumDriver (modules/processors/selenium_processor.py), the          *)
(* AsyncRateLimiter (modules/utils/utils.py), and the URL filters and the  *)
(* content dispatch of process_page called on their own.                   *)
(*                                                                         *)
(* Python strings are sequences of one-character strings, so that          *)
(* str.startswith, urlparse and normalize_url are computed on the text of  *)
(* a URL and not on an abstraction of it.                                  *)
(***************************************************************************)
EXTENDS Integers, Sequences, FiniteSets, TLC

VARIABLES
    \* URLTracker (modules/utils/url_tracker.py)
    visited_urls,      \* URLTracker.visited_urls: set of URLs
    url_pool,          \* URLTracker.url_pool: deque of URLs
    last_op,           \* history: the tracker operation that ran last
    last_return,       \* history: the URL of the last return_url_to_pool that no get_next_url followed yet
    \* run_scraping and the WebsiteScraper instances (main.py, modules/scraper.py)
    site,              \* environment: page (normalized URL) -> links its fetch returns
    max_depth,         \* the depth argument of run_scraping
    main_pc,           \* position of run_scraping
    pc,                \* per scraper: position of WebsiteScraper.scrape
    urls_to_process,   \* per scraper: list of (url, depth)
    current,           \* per scraper: (current_url, depth) of the iteration in flight
    processed_urls,    \* per scraper: set
    error_urls,        \* per scraper: set
    results,           \* per scraper: dict normalized url -> record
    aggregate,         \* the dict run_scraping hands to format_output
    started,           \* history: normalized url -> number of process_page calls started
    fetch_failed,      \* history, per scraper: normalized urls whose fetch_page raised after its last attempt
    selenium_driver,   \* per scraper: WebsiteScraper.selenium_driver and the driver it holds
    selenium_log,      \* history: what the last process_page call did with its scraper's driver
    finally_quit,      \* history, per scraper: the finally clause of scrape() quit a live driver
    last_probe,        \* history: the HEAD probe of the loop iteration that began last
    \* one call of fetch_page (modules/processors/content_processor.py)
    f_pc,              \* position of the call
    f_max_retries,     \* argument max_retries
    f_initial_delay,   \* argument initial_delay
    f_force,           \* argument force_scrape_method
    f_driver,          \* argument selenium_driver is not None
    f_attempt,         \* loop variable attempt
    f_attempts,        \* history: number of attempts performed
    f_sleeps,          \* history: the delays passed to asyncio.sleep, in order
    f_static_calls,    \* history: number of requests.get calls
    f_sel_calls,       \* history: number of fetch_with_selenium calls
    f_last,            \* history: the static content, the outcome and the calls of the last attempt
    \* AsyncRateLimiter objects and the tasks calling wait (modules/utils/utils.py)
    now,               \* time.time(), in ticks
    min_delay,         \* AsyncRateLimiter.min_delay, in ticks
    max_delay,         \* AsyncRateLimiter.max_delay, in ticks
    last_request_times, \* per limiter: AsyncRateLimiter.last_request_times, domain -> time
    limiter_of,        \* per task: the limiter it calls wait on
    wait_pc,           \* per task: position in wait
    wait_call,         \* per task: the wait call it is suspended in
    dispatches,        \* history: the wait calls that returned, in order
    \* calls of the helpers of url_processor.py and of the dispatch of process_page
    h_args,            \* the function called and its arguments
    h_ret,             \* history: the values the calls returned, in order
    \* tasks of one event loop calling the URLTracker
    task_call,         \* per task: the tracker call it is suspended in
    lock_owner,        \* URLTracker.lock: the task that holds it, 0 when free
    \* one run of main() (main.py)
    m_in,              \* the command line and what the site answers about its sitemap
    m_pc,              \* position in main
    m_locals,          \* the locals base_url and sitemap_urls
    m_events,          \* history: the calls main made and the errors it logged, in order
    \* one SeleniumDriver object and the calls of its fetch_with_selenium
    \* (modules/processors/selenium_processor.py)
    sd_driver,         \* SeleniumDriver.driver: 0 for None, else the number of the WebDriver
    sd_pc,             \* position in fetch_with_selenium
    sd_attempt,        \* loop variable attempt
    sd_step,           \* the statement of the loop body the attempt is at
    sd_local,          \* the local variable driver of fetch_with_selenium
    sd_quit,           \* the WebDrivers on which quit() was called
    sd_created,        \* history: number of WebDrivers created
    sd_used            \* history: per attempt of the call, the WebDriver it ran on and whether it was running

tracker_vars == <<visited_urls, url_pool, last_op, last_return>>
crawl_vars == <<site, max_depth, main_pc, pc, urls_to_process, current,
                processed_urls, error_urls, results, aggregate, started, fetch_failed,
                selenium_driver, selenium_log, finally_quit, last_probe>>
fetch_vars == <<f_pc, f_max_retries, f_initial_delay, f_force, f_driver, f_attempt,
                f_attempts, f_sleeps, f_static_calls, f_sel_calls, f_last>>
limiter_vars == <<now, min_delay, max_delay, last_request_times, limiter_of, wait_pc,
                  wait_call, dispatches>>
helper_vars == <<h_args, h_ret>>
task_vars == <<task_call, lock_owner>>
main_vars == <<m_in, m_pc, m_locals, m_events>>
sd_vars == <<sd_driver, sd_pc, sd_attempt, sd_step, sd_local, sd_quit, sd_created,
            sd_used>>
vars == <<tracker_vars, crawl_vars, fetch_vars, limiter_vars, helper_vars, task_vars,
          main_vars, sd_vars>>

(***************************************************************************)
(* Bounds of the model                                                     *)
(***************************************************************************)
\* longest url_pool the tracker specification builds
MaxPool == 3
\* largest depth argument given to run_scraping
MaxDepth == 2
\* largest max_retries argument given to fetch_page
MaxRetriesArg == 4
\* largest initial_delay argument given to fetch_page
MaxDelayArg == 2
\* number of second-phase scrapers; config.py sets 6, the model runs fewer
MAX_SIMULTANEOUS_SCRAPERS == 2
\* largest max_delay of a rate limiter, in ticks
MaxRateDelay == 2
\* number of ticks the clock of the rate limiter specification runs
ClockSpan == 4
\* number of wait calls the rate limiter specification follows
MaxDispatches == 3
\* number of WebDrivers one SeleniumDriver creates in the selenium specification
MaxDrivers == 8
\* the page count discovery mode is to stop at; config.py sets 100, the
\* modelled site has three pages in scope
MAX_URLS_TO_SCRAPE == 2

(***************************************************************************)
(* Python str operations                                                   *)
(***************************************************************************)
\* str.startswith
startswith(s, prefix) ==
    /\ Len(prefix) <= Len(s)
    /\ SubSeq(s, 1, Len(prefix)) = prefix

\* index of the first character of s that is in chars (1-based), 0 if none:
\* str.find, and the min over delimiters of urllib's _splitnetloc
find(s, chars) ==
    LET hits == {i \in 1..Len(s) : s[i] \in chars}
    IN  IF hits = {} THEN 0 ELSE CHOOSE i \in hits : \A j \in hits : i <= j

UPPER == {"H", "T", "P", "E", "A", "J", "G", "D", "F"}
LOWER == {"h", "t", "p", "s", "e", "c", "x", "o", "a", "b", "q",
          "j", "g", "d", "f", "m", "l", "n", "i", "v", "w"}
DIGITS == {"1", "3", "4"}

lower_char(c) ==
    CASE c = "H" -> "h"
      [] c = "T" -> "t"
      [] c = "P" -> "p"
      [] c = "E" -> "e"
      [] c = "A" -> "a"
      [] c = "J" -> "j"
      [] c = "G" -> "g"
      [] c = "D" -> "d"
      [] c = "F" -> "f"
      [] OTHER -> c

\* str.lower
lower(s) == [i \in 1..Len(s) |-> lower_char(s[i])]

\* str.rstrip(c): s without its longest suffix of c's
rstrip(s, c) ==
    LET keep == {n \in 0..Len(s) : \A k \in (n + 1)..Len(s) : s[k] = c}
    IN  SubSeq(s, 1, CHOOSE n \in keep : \A m \in keep : n <= m)

\* ord() of the characters of the alphabet
ord(c) ==
    CASE c = "#" -> 35 [] c = "." -> 46 [] c = "/" -> 47 [] c = "1" -> 49
      [] c = ":" -> 58 [] c = "=" -> 61 [] c = "?" -> 63
      [] c = "A" -> 65 [] c = "E" -> 69 [] c = "H" -> 72 [] c = "P" -> 80
      [] c = "T" -> 84 [] c = "[" -> 91 [] c = "]" -> 93
      [] c = "a" -> 97 [] c = "b" -> 98 [] c = "c" -> 99 [] c = "e" -> 101
      [] c = "h" -> 104 [] c = "o" -> 111 [] c = "p" -> 112 [] c = "q" -> 113
      [] c = "s" -> 115 [] c = "t" -> 116 [] c = "x" -> 120
      [] OTHER -> 0

\* s < t for Python strings (lexicographic by code point)
str_less(s, t) ==
    \E i \in 1..(Len(t)) :
        /\ \A j \in 1..(i - 1) : j <= Len(s) /\ s[j] = t[j]
        /\ \/ i = Len(s) + 1
           \/ i <= Len(s) /\ ord(s[i]) < ord(t[i])

\* sorted(list(S)) for a set S of strings
sorted(S) ==
    CHOOSE q \in [1..Cardinality(S) -> S] :
        \A i, j \in 1..Cardinality(S) : i < j => str_less(q[i], q[j])

\* the orders in which list(S) may enumerate a set (Python fixes none)
list_orders(S) ==
    {q \in [1..Cardinality(S) -> S] : \A i, j \in 1..Cardinality(S) : i # j => q[i] # q[j]}

\* the elements of a sequence
Range(q) == {q[i] : i \in 1..Len(q)}

\* str.endswith
endswith(s, suffix) ==
    /\ Len(suffix) <= Len(s)
    /\ SubSeq(s, Len(s) - Len(suffix) + 1, Len(s)) = suffix

\* str.rfind(c): index of the last c in s (1-based), 0 if none
rfind(s, c) ==
    LET hits == {i \in 1..Len(s) : s[i] = c}
    IN  IF hits = {} THEN 0 ELSE CHOOSE i \in hits : \A j \in hits : i >= j

\* s.split(c)[-1]: the text after the last c, all of s if it has none
split_last(s, c) == SubSeq(s, rfind(s, c) + 1, Len(s))

\* needle in s, for Python strings
contains(s, needle) ==
    \E i \in 1..(Len(s) - Len(needle) + 1) : SubSeq(s, i, i + Len(needle) - 1) = needle

\* number of occurrences of x in a sequence
Count(q, x) == Cardinality({i \in 1..Len(q) : q[i] = x})

(***************************************************************************)
(* urllib.parse.urlparse and the URL helpers of url_processor.py           *)
(***************************************************************************)
SCHEME_CHARS == UPPER \cup LOWER \cup DIGITS \cup {"+", "-", "."}

\* urlsplit, first part: the scheme is split off when the text before the
\* first ":" is made of scheme characters and starts with a letter
split_scheme(url) ==
    LET i == find(url, {":"})
        has_scheme == /\ i > 1
                      /\ url[1] \in UPPER \cup LOWER
                      /\ \A k \in 1..(i - 1) : url[k] \in SCHEME_CHARS
    IN  [scheme |-> IF has_scheme THEN lower(SubSeq(url, 1, i - 1)) ELSE <<>>,
         rest |-> IF has_scheme THEN SubSeq(url, i + 1, Len(url)) ELSE url]

\* urlsplit, second part: after "//" the netloc runs up to the first of / ? #
split_netloc(p) ==
    LET has_netloc == startswith(p.rest, <<"/", "/">>)
        after == SubSeq(p.rest, 3, Len(p.rest))
        d == find(after, {"/", "?", "#"})
    IN  [scheme |-> p.scheme,
         netloc |-> IF ~has_netloc THEN <<>>
                    ELSE IF d = 0 THEN after ELSE SubSeq(after, 1, d - 1),
         rest |-> IF ~has_netloc THEN p.rest
                  ELSE IF d = 0 THEN <<>> ELSE SubSeq(after, d, Len(after))]

\* urlsplit, third part: the fragment after the first "#", then the query
\* after the first "?"; invalid stands for the ValueError("Invalid IPv6 URL")
\* urlsplit raises when the netloc has one bracket without the other
split_query(p) ==
    LET f == find(p.rest, {"#"})
        rest3 == IF f = 0 THEN p.rest ELSE SubSeq(p.rest, 1, f - 1)
        q == find(rest3, {"?"})
    IN  [scheme |-> p.scheme,
         netloc |-> p.netloc,
         path |-> IF q = 0 THEN rest3 ELSE SubSeq(rest3, 1, q - 1),
         query |-> IF q = 0 THEN <<>> ELSE SubSeq(rest3, q + 1, Len(rest3)),
         fragment |-> IF f = 0 THEN <<>> ELSE SubSeq(p.rest, f + 1, Len(p.rest)),
         invalid |-> ("[" \in Range(p.netloc)) # ("]" \in Range(p.netloc))]

\* the schemes of urllib's uses_params that the alphabet can spell
USES_PARAMS == {<<>>, <<"h", "t", "t", "p">>, <<"h", "t", "t", "p", "s">>}

\* urlparse's _splitparams: the parameters after the first ";" of the last
\* path segment are taken off the path
split_params(p) ==
    LET slash == rfind(p.path, "/")
        last_segment == SubSeq(p.path, slash + 1, Len(p.path))
        semi == find(last_segment, {";"})
        splits == p.scheme \in USES_PARAMS /\ semi > 0
    IN  [scheme |-> p.scheme,
         netloc |-> p.netloc,
         path |-> IF splits THEN SubSeq(p.path, 1, slash + semi - 1) ELSE p.path,
         params |-> IF splits THEN SubSeq(p.path, slash + semi + 1, Len(p.path)) ELSE <<>>,
         query |-> p.query,
         fragment |-> p.fragment,
         invalid |-> p.invalid]

\* urlparse(url): the fields the crawler reads.  The parts are chained
\* through bound variables so that each is evaluated once.
urlparse(url) ==
    CHOOSE parsed \in {split_params(p3) : p3 \in {split_query(p2) :
                          p2 \in {split_netloc(p1) : p1 \in {split_scheme(url)}}}} : TRUE

\* get_domain(url)
get_domain(url) == urlparse(url).netloc

\* normalize_url raises (the ValueError of urlparse)
normalize_url_raises(url) == urlparse(lower(url)).invalid

\* url_processor.py:63-65: the normalized text from the parsed URL
join_normalized(parsed) ==
    LET scheme == IF parsed.scheme # <<>> THEN parsed.scheme
                  ELSE <<"h", "t", "t", "p", "s">>
        path == rstrip(parsed.path, "/")
    IN  scheme \o <<":", "/", "/">> \o parsed.netloc \o path

\* normalize_url(url)
normalize_url(url) ==
    CHOOSE normalized \in {join_normalized(parsed) : parsed \in {urlparse(lower(url))}} : TRUE

\* url_matches_base(url, base_url)
url_matches_base(url, base_url) ==
    LET parsed_url == urlparse(url)
        parsed_base == urlparse(base_url)
    IN  /\ parsed_url.netloc = parsed_base.netloc
        /\ startswith(parsed_url.path, parsed_base.path)

(***************************************************************************)
(* The helpers of url_processor.py and the content dispatch of             *)
(* process_page, called on their own with arguments from a bounded set     *)
(***************************************************************************)
\* modules/utils/utils.py:66
image_extensions ==
    {<<"j", "p", "g">>, <<"j", "p", "e", "g">>, <<"p", "n", "g">>, <<"g", "i", "f">>, <<"b", "m", "p">>,
     <<"s", "v", "g">>, <<"m", "p", "3">>, <<"m", "p", "4">>, <<"w", "a", "v">>, <<"a", "v", "i">>, <<"m", "o", "v">>}

\* is_image_file_extension (modules/utils/utils.py:65-67)
is_image_file_extension(path) == lower(split_last(path, ".")) \in image_extensions

\* is_valid_url(url, base_url) (url_processor.py:37-50)
is_valid_url(url, base_url) ==
    LET parsed_url == urlparse(url)
        parsed_base == urlparse(base_url)
    IN  /\ parsed_url.netloc = parsed_base.netloc
        /\ ~is_image_file_extension(parsed_url.path)

\* the value normalize_url returns, or the ValueError it raises
normalize_url_result(url) ==
    IF normalize_url_raises(url) THEN [raises |-> TRUE, value |-> <<>>]
    ELSE [raises |-> FALSE, value |-> normalize_url(url)]

\* the response of a HEAD request: the Content-Type header, or a RequestException
HeadResponses ==
    {[raises |-> TRUE, content_type |-> <<>>]}
        \cup {[raises |-> FALSE, content_type |-> t] :
                t \in {<<"a", "p", "p", "l", "i", "c", "a", "t", "i", "o", "n", "/", "p", "d", "f">>, <<"t", "e", "x", "t", "/", "h", "t", "m", "l">>, <<"i", "m", "a", "g", "e", "/", "p", "n", "g">>, <<>>}}

\* content_type.lower().startswith('text/html') (content_processor.py:47,
\* url_processor.py:148)
is_html_type(content_type) == startswith(lower(content_type), <<"t", "e", "x", "t", "/", "h", "t", "m", "l">>)

\* is_pdf_url(url) (url_processor.py:116-133), head: what requests.head gives
is_pdf_url(url, head) ==
    IF endswith(lower(url), <<".", "p", "d", "f">>) THEN TRUE
    ELSE IF head.raises THEN FALSE
    ELSE contains(lower(head.content_type), <<"a", "p", "p", "l", "i", "c", "a", "t", "i", "o", "n", "/", "p", "d", "f">>)

\* a dispatch that tests for PDF before it tests for HTML
extractor_pdf_first(content_type, url, head) ==
    IF lower(content_type) = <<"a", "p", "p", "l", "i", "c", "a", "t", "i", "o", "n", "/", "p", "d", "f">> \/ is_pdf_url(url, head)
    THEN "extract_text_from_pdf"
    ELSE IF is_html_type(content_type) THEN "extract_text_from_html"
    ELSE "unsupported"

\* content_processor.py:47-52: the extractor process_page hands the content to
extractor(content_type, url, head) ==
    IF is_html_type(content_type) THEN "extract_text_from_html"
    ELSE IF lower(content_type) = <<"a", "p", "p", "l", "i", "c", "a", "t", "i", "o", "n", "/", "p", "d", "f">> \/ is_pdf_url(url, head)
         THEN "extract_text_from_pdf"
    ELSE "unsupported"

\* content_processor.py:55: the links of fetch_page if it returned any, or
\* else the ones extract_urls (url_processor.py:147-156) finds, which are
\* the anchors of HTML content and nothing for every other type
discovered_urls_of(fetched_urls, content_type, hrefs) ==
    IF fetched_urls # {} THEN fetched_urls
    ELSE IF is_html_type(content_type) THEN hrefs
    ELSE {}

\* the names parse_qs(query) has as keys: the text before the first "=" of
\* every "&"-separated field that has a value after it
parse_qs(query) ==
    LET starts == {1} \cup {k + 1 : k \in {i \in 1..Len(query) : query[i] = "&"}}
        field(i) == LET rest == SubSeq(query, i, Len(query))
                        amp == find(rest, {"&"})
                    IN  IF amp = 0 THEN rest ELSE SubSeq(rest, 1, amp - 1)
    IN  {SubSeq(field(i), 1, find(field(i), {"="}) - 1) :
            i \in {j \in starts : /\ find(field(j), {"="}) > 0
                                  /\ find(field(j), {"="}) < Len(field(j))}}

\* url_processor.py:95
suspicious_params == {<<"i", "t", "e", "m", "I", "d">>, <<"i", "m", "a", "g", "e", "I", "d">>, <<"g", "a", "l", "l", "e", "r", "y", "I", "d">>}

\* is_suspicious_url(url) (url_processor.py:83-96)
is_suspicious_url(url) ==
    LET parsed_url == urlparse(url)
    IN  \/ parse_qs(parsed_url.query) \cap suspicious_params # {}
        \/ is_image_file_extension(parsed_url.path)

\* a probe that takes every answer for an image
is_image_content_type_any(head) == ~head.raises

\* is_image_content_type(url) (url_processor.py:98-114), head: what
\* requests.head gives
is_image_content_type(head) ==
    ~head.raises /\ startswith(head.content_type, <<"i", "m", "a", "g", "e", "/">>)

\* URL texts a caller hands to normalize_url, put together from a scheme, a
\* host, a path and a tail: with and without scheme, in upper and lower
\* case, with trailing slashes, path parameters, query and fragment
NormalizeInputs ==
    LET SchemeTexts == {<<>>, <<"h", "t", "t", "p", "s", ":", "/", "/">>, <<"H", "T", "T", "P", ":", "/", "/">>, <<"h", "t", "t", "p", ":", "/", "/">>}
        HostTexts == {<<"e", ".", "c">>, <<"E", "x", "a", "m", "p", "l", "e", ".", "c", "o", "m">>}
        PathTexts == {<<>>, <<"/">>, <<"/", "a">>, <<"/", "a", "/">>, <<"/", "a", "/", "/">>,
                      <<"/", "P", "a", "g", "e", "/">>, <<"/", "a", ";", "b">>,
                      <<"/", "a", ";", "b", "/">>}
        TailTexts == {<<>>, <<"?", "q", "u", "e", "r", "y", "=", "1">>, <<"#", "f", "r", "a", "g", "m", "e", "n", "t">>}
    IN  {scheme \o host \o path \o tail :
            scheme \in SchemeTexts, host \in HostTexts,
            path \in PathTexts, tail \in TailTexts}

\* "not_a_url" (tests/test_scraper.py:170)
NotAUrl == <<"n", "o", "t", "_", "a", "_", "u", "r", "l">>

\* the URLs and base URLs handed to is_valid_url
ValidUrlInputs ==
    {<<"h", "t", "t", "p", "s", ":", "/", "/", "e", ".", "c">>, <<"h", "t", "t", "p", "s", ":", "/", "/", "e", ".", "c", "/", "a">>, <<"h", "t", "t", "p", "s", ":", "/", "/", "o", ".", "c">>,
     <<"h", "t", "t", "p", "s", ":", "/", "/", "e", ".", "c", "/", "a", ".", "j", "p", "g">>, <<"h", "t", "t", "p", "s", ":", "/", "/", "e", ".", "c", "/", "a", ".", "J", "P", "G">>,
     <<"h", "t", "t", "p", "s", ":", "/", "/", "e", ".", "c", "/", "a", ".", "m", "p", "4", "?", "q", "=", "1">>, <<"h", "t", "t", "p", "s", ":", "/", "/", "o", ".", "c", "/", "a", ".", "p", "n", "g">>,
     <<"h", "t", "t", "p", ":", "/", "/", "e", ".", "c", "/", "a", ".", "j", "p", "g", "/", "b">>, NotAUrl}
BaseUrlInputs == {<<"h", "t", "t", "p", "s", ":", "/", "/", "e", ".", "c">>, <<"h", "t", "t", "p", "s", ":", "/", "/", "e", ".", "c", "/", "a">>, <<"h", "t", "t", "p", ":", "/", "/", "e", ".", "c">>, NotAUrl}

\* the Content-Type fetch_page returns with the content
ContentTypes ==
    {<<"t", "e", "x", "t", "/", "h", "t", "m", "l">>, <<"t", "e", "x", "t", "/", "h", "t", "m", "l", ";", " ", "c", "h", "a", "r", "s", "e", "t", "=", "u", "t", "f", "-", "8">>, <<"T", "e", "x", "t", "/", "h", "t", "m", "l">>,
     <<"a", "p", "p", "l", "i", "c", "a", "t", "i", "o", "n", "/", "p", "d", "f">>, <<"A", "p", "p", "l", "i", "c", "a", "t", "i", "o", "n", "/", "p", "d", "f">>,
     <<"a", "p", "p", "l", "i", "c", "a", "t", "i", "o", "n", "/", "x", "h", "t", "m", "l", "+", "x", "m", "l">>, <<"t", "e", "x", "t", "/", "p", "l", "a", "i", "n">>, <<>>}

\* the types of documents in which a browser finds anchors
AnchorTypes == {content_type \in ContentTypes : is_html_type(content_type)} \cup {<<"a", "p", "p", "l", "i", "c", "a", "t", "i", "o", "n", "/", "x", "h", "t", "m", "l", "+", "x", "m", "l">>}

\* the URLs process_page is called for
DispatchUrls == {<<"h", "t", "t", "p", "s", ":", "/", "/", "e", ".", "c", "/", "a">>, <<"h", "t", "t", "p", "s", ":", "/", "/", "e", ".", "c", "/", "a", ".", "p", "d", "f">>, <<"h", "t", "t", "p", "s", ":", "/", "/", "e", ".", "c", "/", "a", ".", "P", "D", "F">>}

\* the calls made
HelperCalls ==
    {[fn |-> "normalize_url", url |-> url] : url \in NormalizeInputs}
        \cup {[fn |-> "is_valid_url", url |-> url, base_url |-> base] :
                url \in ValidUrlInputs, base \in BaseUrlInputs}
        \cup {[fn |-> "process_page", content_type |-> content_type, url |-> url,
               head |-> head, fetched_urls |-> fetched_urls, hrefs |-> hrefs] :
                content_type \in ContentTypes, url \in DispatchUrls, head \in HeadResponses,
                fetched_urls \in {{}, {<<"h", "t", "t", "p", "s", ":", "/", "/", "e", ".", "c", "/", "a">>}}, hrefs \in {{}, {<<"h", "t", "t", "p", "s", ":", "/", "/", "e", ".", "c", "/", "b">>}}}

\* no call is in progress
NoCallMade == [fn |-> "none"]

HelperIdle ==
    /\ h_args = NoCallMade
    /\ h_ret = <<>>

\* a helper is about to be called
HelperInit ==
    /\ h_args \in {call \in HelperCalls :
                      call.fn = "process_page" /\ call.fetched_urls # {}
                          => call.content_type \in AnchorTypes}
    /\ h_ret = <<>>

\* normalize_url is called on the text, and then on the text it returned
\* (scraper.py:67 normalizes the queue entries scraper.py:97 normalized)
call_normalize_url ==
    /\ h_args.fn = "normalize_url"
    /\ Len(h_ret) < 2
    /\ h_ret # <<>> => ~h_ret[1].raises
    /\ h_ret' = Append(h_ret, normalize_url_result(IF h_ret = <<>> THEN h_args.url
                                                   ELSE h_ret[1].value))
    /\ UNCHANGED h_args
    /\ UNCHANGED <<tracker_vars, crawl_vars, fetch_vars, limiter_vars, task_vars, main_vars, sd_vars>>

\* is_valid_url(url, base_url) is called
call_is_valid_url ==
    /\ h_args.fn = "is_valid_url"
    /\ h_ret = <<>>
    /\ h_ret' = <<is_valid_url(h_args.url, h_args.base_url)>>
    /\ UNCHANGED h_args
    /\ UNCHANGED <<tracker_vars, crawl_vars, fetch_vars, limiter_vars, task_vars, main_vars, sd_vars>>

\* content_processor.py:46-57: process_page picks the extractor and the links
call_process_page ==
    /\ h_args.fn = "process_page"
    /\ h_ret = <<>>
    /\ h_ret' = <<[extractor |-> extractor(h_args.content_type, h_args.url, h_args.head),
                   discovered_urls |-> discovered_urls_of(h_args.fetched_urls,
                                           h_args.content_type, h_args.hrefs)]>>
    /\ UNCHANGED h_args
    /\ UNCHANGED <<tracker_vars, crawl_vars, fetch_vars, limiter_vars, task_vars, main_vars, sd_vars>>

(***************************************************************************)
(* The URLs of the modelled site                                           *)
(***************************************************************************)
\* "https://e.c": the seed, already normalized by main()
Seed == <<"h", "t", "t", "p", "s", ":", "/", "/", "e", ".", "c">>
\* "https://e.c/a" and "https://e.c/b": same-site pages
PageA == Seed \o <<"/", "a">>
PageB == Seed \o <<"/", "b">>
\* "https://e.c/a/": a link to PageA that is not in normalized form
PageASlash == PageA \o <<"/">>
\* "https://o.c/b": a page of another site
Foreign == <<"h", "t", "t", "p", "s", ":", "/", "/", "o", ".", "c", "/", "b">>
\* "https://e.c.x/a": another host whose URL has the seed as a string prefix
PrefixForeign == Seed \o <<".", "x", "/", "a">>
\* "http://[": an href urlparse rejects
Malformed == <<"h", "t", "t", "p", ":", "/", "/", "[">>
\* "https://e.c/a.png": a same-site URL with a media extension
Image == Seed \o <<"/", "a", ".", "p", "n", "g">>

\* every URL text that occurs in a run
Urls == {Seed, PageA, PageB, PageASlash, Foreign, PrefixForeign, Malformed, Image}

\* run_scraping's normalized_base_url (main.py:51), the base_url of every scraper
base_url == normalize_url(Seed)

\* the scope test left out
in_scope_always(url) == TRUE

\* the test of scraper.py:69 and :100
in_scope(url) == startswith(url, base_url)

\* The URL helpers tabulated over Urls: each entry is the value the helper
\* computes, evaluated once instead of at every step.
NormalizeUrl == [url \in Urls |-> normalize_url(url)]
NormalizeUrlRaises == [url \in Urls |-> normalize_url_raises(url)]
InScope == [url \in Urls |-> in_scope(url)]
UrlMatchesBase == [url \in Urls |-> url_matches_base(url, base_url)]
IsSuspiciousUrl == [url \in Urls |-> is_suspicious_url(url)]
Sorted == [S \in SUBSET {url \in Urls : url = normalize_url(url)} |-> sorted(S)]

(***************************************************************************)
(* URLTracker (modules/utils/url_tracker.py).  No method awaits anything   *)
(* while it holds self.lock, and acquiring a free asyncio.Lock does not     *)
(* suspend, so on the event loop every method runs as one step.            *)
(***************************************************************************)
TrackerUrls == {PageA, PageB}

NoOp == [op |-> "none", url |-> <<>>]

\* no return_url_to_pool is waiting for its get_next_url
NoReturn == [url |-> <<>>, cleared |-> FALSE, got |-> FALSE]

\* URLTracker.__init__
TrackerInit ==
    /\ visited_urls = {}
    /\ url_pool = <<>>
    /\ last_op = NoOp
    /\ last_return = NoReturn

\* URLTracker.is_visited(url)
is_visited(url) == url \in visited_urls

\* mark_visited that adds nothing
mark_visited_set_unchanged(url) == visited_urls

\* mark_visited as `self.visited_urls = {url}`: the set is replaced
mark_visited_set_replacing(url) == {url}

\* URLTracker.mark_visited(url): the new visited set
mark_visited_set(url) == visited_urls \cup {url}

\* URLTracker.mark_visited(url)
mark_visited(url) ==
    /\ visited_urls' = mark_visited_set(url)
    /\ last_op' = [op |-> "mark_visited", url |-> url]
    /\ UNCHANGED <<url_pool, last_return>>
    /\ UNCHANGED <<crawl_vars, fetch_vars, limiter_vars, helper_vars, task_vars, main_vars, sd_vars>>

\* add_to_pool without the is_visited test
add_to_pool_result_unchecked(url) == Append(url_pool, url)

\* URLTracker.add_to_pool(url): the new pool
add_to_pool_result(url) ==
    IF ~is_visited(url) THEN Append(url_pool, url) ELSE url_pool

\* URLTracker.add_to_pool(url)
add_to_pool(url) ==
    /\ Len(url_pool) < MaxPool
    /\ url_pool' = add_to_pool_result(url)
    /\ last_op' = [op |-> "add_to_pool", url |-> url]
    /\ UNCHANGED <<visited_urls, last_return>>
    /\ UNCHANGED <<crawl_vars, fetch_vars, limiter_vars, helper_vars, task_vars, main_vars, sd_vars>>

\* URLTracker.get_next_url(): popleft, or None on an empty pool
get_next_url ==
    /\ url_pool' = IF url_pool # <<>> THEN Tail(url_pool) ELSE url_pool
    /\ last_op' = [op |-> "get_next_url",
                   url |-> IF url_pool # <<>> THEN Head(url_pool) ELSE <<>>]
    /\ last_return' = [NoReturn EXCEPT !.got = last_return.url # <<>>]
    /\ UNCHANGED visited_urls
    /\ UNCHANGED <<crawl_vars, fetch_vars, limiter_vars, helper_vars, task_vars, main_vars, sd_vars>>

\* the loop of add_bulk_to_pool over the urls in the order `order`
RECURSIVE add_bulk_loop(_, _)
add_bulk_loop(pool, order) ==
    IF order = <<>> THEN pool
    ELSE add_bulk_loop(IF Head(order) \notin visited_urls
                       THEN Append(pool, Head(order)) ELSE pool,
                       Tail(order))

\* URLTracker.add_bulk_to_pool(urls): the set is iterated in some order
add_bulk_to_pool(urls) ==
    /\ Len(url_pool) + Cardinality(urls) <= MaxPool
    /\ \E order \in list_orders(urls) :
           url_pool' = add_bulk_loop(url_pool, order)
    /\ last_op' = [op |-> "add_bulk_to_pool", url |-> urls]
    /\ UNCHANGED <<visited_urls, last_return>>
    /\ UNCHANGED <<crawl_vars, fetch_vars, limiter_vars, helper_vars, task_vars, main_vars, sd_vars>>

\* return_url_to_pool with append in place of appendleft
return_url_to_pool_result_appending(url) == Append(url_pool, url)

\* URLTracker.return_url_to_pool(url): the new pool, appendleft
return_url_to_pool_result(url) == <<url>> \o url_pool

\* URLTracker.return_url_to_pool(url)
return_url_to_pool(url) ==
    /\ Len(url_pool) < MaxPool
    /\ url_pool' = return_url_to_pool_result(url)
    /\ last_op' = [op |-> "return_url_to_pool", url |-> url]
    /\ last_return' = [NoReturn EXCEPT !.url = url]
    /\ UNCHANGED visited_urls
    /\ UNCHANGED <<crawl_vars, fetch_vars, limiter_vars, helper_vars, task_vars, main_vars, sd_vars>>

\* URLTracker.clear_pool()
clear_pool ==
    /\ url_pool' = <<>>
    /\ last_op' = [op |-> "clear_pool", url |-> <<>>]
    /\ last_return' = [last_return EXCEPT !.cleared = last_return.url # <<>>, !.got = FALSE]
    /\ UNCHANGED visited_urls
    /\ UNCHANGED <<crawl_vars, fetch_vars, limiter_vars, helper_vars, task_vars, main_vars, sd_vars>>

(***************************************************************************)
(* The URLTracker called by concurrent tasks of one event loop.  A task    *)
(* runs without interruption from one suspension point to the next, and    *)
(* the only await of a tracker method that can suspend its caller is the   *)
(* acquire of self.lock: `await self.is_visited(url)` runs a coroutine     *)
(* that awaits nothing.                                                    *)
(***************************************************************************)
Callers == {1, 2}

NotSuspended == [op |-> "none", url |-> <<>>]

\* the calls the tasks make
TaskCalls ==
    {[op |-> o, url |-> u] : o \in {"mark_visited", "add_to_pool"}, u \in TrackerUrls}
        \cup {[op |-> "get_next_url", url |-> <<>>]}

TaskIdle ==
    /\ task_call = [t \in Callers |-> NotSuspended]
    /\ lock_owner = 0

\* an acquire that yields to the event loop whether the lock is held or not
acquire_suspends_always(owner) == TRUE

\* `async with self.lock`: asyncio.Lock.acquire suspends its caller only
\* when the lock is held
acquire_suspends(owner) == owner # 0

\* the statements a tracker method runs while it holds self.lock, and the
\* release of the lock at the end of the `async with` block
locked_body(t, call) ==
    /\ call.op = "add_to_pool" => Len(url_pool) < MaxPool
    /\ visited_urls' = IF call.op = "mark_visited"
                       THEN mark_visited_set(call.url) ELSE visited_urls
    /\ url_pool' = CASE call.op = "add_to_pool" -> Append(url_pool, call.url)
                     [] call.op = "get_next_url" /\ url_pool # <<>> -> Tail(url_pool)
                     [] OTHER -> url_pool
    /\ last_op' = [op |-> call.op, task |-> t,
                   url |-> IF call.op # "get_next_url" THEN call.url
                           ELSE IF url_pool # <<>> THEN Head(url_pool) ELSE <<>>]
    /\ lock_owner' = 0

\* task t runs up to its next suspension point: from the start of a call,
\* or from the acquire it was suspended in
task_runs(t) ==
    /\ IF task_call[t] = NotSuspended
       THEN \E call \in TaskCalls :
                IF call.op = "add_to_pool" /\ is_visited(call.url)
                THEN /\ last_op' = [op |-> call.op, task |-> t, url |-> call.url]
                     /\ UNCHANGED <<visited_urls, url_pool, task_vars, main_vars, sd_vars>>
                ELSE IF acquire_suspends(lock_owner)
                     THEN /\ task_call' = [task_call EXCEPT ![t] = call]
                          /\ UNCHANGED <<visited_urls, url_pool, last_op, lock_owner>>
                     ELSE /\ locked_body(t, call)
                          /\ UNCHANGED task_call
       ELSE /\ lock_owner = 0
            /\ locked_body(t, task_call[t])
            /\ task_call' = [task_call EXCEPT ![t] = NotSuspended]
    /\ UNCHANGED <<last_return, crawl_vars, fetch_vars, limiter_vars, helper_vars, main_vars, sd_vars>>

(***************************************************************************)
(* One attempt of fetch_page and SeleniumDriver                            *)
(* (modules/processors/content_processor.py,                               *)
(* modules/processors/selenium_processor.py)                               *)
(***************************************************************************)
\* an attempt that does not look at force_scrape_method
attempt_body_unforced(force, driver, static_ok, dynamic, sel_ok) ==
    IF ~static_ok THEN [ok |-> FALSE, static |-> 1, sel |-> 0]
    ELSE IF dynamic
         THEN IF ~driver THEN [ok |-> FALSE, static |-> 1, sel |-> 0]
              ELSE [ok |-> sel_ok, static |-> 1, sel |-> 1]
         ELSE [ok |-> TRUE, static |-> 1, sel |-> 0]

\* content_processor.py:88-122: the body of the try block of one attempt.
\* static_ok: requests.get and raise_for_status do not raise; dynamic:
\* is_dynamic_content(content); sel_ok: fetch_with_selenium returns content.
\* ok: the attempt reaches `return`; static, sel: the calls it made.
attempt_body(force, driver, static_ok, dynamic, sel_ok) ==
    IF force = "sel"
    THEN IF ~driver THEN [ok |-> FALSE, static |-> 0, sel |-> 0]
         ELSE [ok |-> sel_ok, static |-> 0, sel |-> 1]
    ELSE IF ~static_ok THEN [ok |-> FALSE, static |-> 1, sel |-> 0]
         ELSE IF force # "req" /\ dynamic
              THEN IF ~driver THEN [ok |-> FALSE, static |-> 1, sel |-> 0]
                   ELSE [ok |-> sel_ok, static |-> 1, sel |-> 1]
              ELSE [ok |-> TRUE, static |-> 1, sel |-> 0]

\* config.py:28
MAX_RETRIES == 2

\* WebsiteScraper.selenium_driver: None, a SeleniumDriver whose driver is
\* None, a SeleniumDriver whose driver runs
DriverStates == {"None", "no_driver", "live"}

\* what a process_page call did with the driver: the scraper, the state it
\* found the driver in, the number of drivers created and quit, and of
\* fetch_with_selenium calls that failed
NoLog == [scraper |-> 0, before |-> "None", created |-> 0, quit |-> 0, failures |-> 0]

\* fetch_with_selenium that leaves the failed driver running
fetch_with_selenium_keeping(driver, first_ok) ==
    [ok |-> first_ok, driver |-> "live",
     created |-> IF driver = "live" THEN 0 ELSE 1, quit |-> 0,
     failures |-> IF first_ok THEN 0 ELSE 1]

\* SeleniumDriver.fetch_with_selenium (selenium_processor.py:120-211), the
\* browser being installed: setup_selenium creates the driver when there is
\* none; when the first attempt raises and it is not the last, the driver
\* is quit and the remaining attempts run on the quit driver and raise too;
\* the last attempt returns (None, None, [])
fetch_with_selenium(driver, first_ok) ==
    [ok |-> first_ok,
     driver |-> IF first_ok \/ MAX_RETRIES = 1 THEN "live" ELSE "no_driver",
     created |-> IF driver = "live" THEN 0 ELSE 1,
     quit |-> IF first_ok \/ MAX_RETRIES = 1 THEN 0 ELSE 1,
     failures |-> IF first_ok THEN 0 ELSE 1]

\* the ways one attempt of fetch_page can go in a scraper: requests.get
\* returns static content, requests.get raises, the content is dynamic and
\* fetch_with_selenium returns it, the content is dynamic and
\* fetch_with_selenium fails
AttemptOutcomes == {"static", "static_error", "sel", "sel_error"}

\* content_processor.py:88-122 for a scraper, which passes a SeleniumDriver
\* (scraper.py:93) and no forced method; r is the state the attempt starts in
scraper_attempt(r, outcome) ==
    LET a == attempt_body("None", TRUE, outcome # "static_error",
                          outcome \in {"sel", "sel_error"}, outcome = "sel")
        f == fetch_with_selenium(r.driver, outcome = "sel")
    IN  IF a.sel = 0 THEN [r EXCEPT !.ok = a.ok, !.via_selenium = FALSE]
        ELSE [ok |-> a.ok, via_selenium |-> TRUE, driver |-> f.driver,
              created |-> r.created + f.created, quit |-> r.quit + f.quit,
              failures |-> r.failures + f.failures]

\* content_processor.py:87-133 with the default max_retries: the attempts
\* from `attempt` on; ok is FALSE when the last attempt re-raised
RECURSIVE fetch_page_from(_, _, _)
fetch_page_from(r, outcomes, attempt) ==
    IF attempt >= MAX_RETRIES THEN r
    ELSE IF scraper_attempt(r, outcomes[attempt + 1]).ok
         THEN scraper_attempt(r, outcomes[attempt + 1])
         ELSE fetch_page_from(scraper_attempt(r, outcomes[attempt + 1]), outcomes, attempt + 1)

\* fetch_page as process_page calls it for a scraper whose driver is `driver`
fetch_page(driver, outcomes) ==
    fetch_page_from([ok |-> FALSE, via_selenium |-> FALSE, driver |-> driver,
                     created |-> 0, quit |-> 0, failures |-> 0], outcomes, 0)

\* every way the attempts of one fetch_page call can go
FetchOutcomes == [1..MAX_RETRIES -> AttemptOutcomes]

\* what fetch_page can return to process_page, by the state of the driver
FetchResults ==
    [driver \in DriverStates |-> {fetch_page(driver, outcomes) : outcomes \in FetchOutcomes}]

(***************************************************************************)
(* The site the crawl runs against (the environment)                       *)
(***************************************************************************)
\* the normalized URLs a fetch can be asked for
Pages == {Seed, PageA, PageB, Foreign, PrefixForeign, Image}

\* the absolute hrefs process_page may return for the seed, PageA and PageB
SeedLinks == {{PageA, Foreign}, {PageASlash, PageB}, {PageA, PageB, PrefixForeign}}
PageALinks == {{}, {PageB}, {PageB, PrefixForeign, Foreign}, {Malformed, PageB}}
PageBLinks == {{}, {PageA, Seed}}

Sites ==
    {[p \in Pages |-> CASE p = Seed -> ls
                        [] p = PageA -> la
                        [] p = PageB -> lb
                        [] OTHER -> {}] :
        ls \in SeedLinks, la \in PageALinks, lb \in PageBLinks}

\* sites that link to a media file
MediaSites ==
    {[p \in Pages |-> CASE p = Seed -> ls
                        [] p = PageA -> la
                        [] OTHER -> {}] :
        ls \in {{Image, PageA}, {Image, Malformed}}, la \in {{}, {Image}}}

(***************************************************************************)
(* WebsiteScraper (modules/scraper.py) and run_scraping (main.py).         *)
(* Scraper 0 is the initial scraper of run_init_scraper, scrapers          *)
(* 1..MAX_SIMULTANEOUS_SCRAPERS are the ones run_scraping gathers.  A      *)
(* scraper gives up the event loop only inside rate_limiter.wait and       *)
(* process_page, so one loop iteration is two steps: up to the call of     *)
(* process_page, and from its return to the end of the iteration.          *)
(***************************************************************************)
Scrapers == 0..MAX_SIMULTANEOUS_SCRAPERS
Workers == 1..MAX_SIMULTANEOUS_SCRAPERS

\* an initial scraper that is given depth 1
scraper_max_depth_one(w) == IF w = 0 THEN 1 ELSE max_depth

\* WebsiteScraper.max_depth: 0 for the initial scraper (main.py:54)
scraper_max_depth(w) == IF w = 0 THEN 0 ELSE max_depth

\* the test of the depth with <= in place of <
extends_queue_at_bound(w, depth) == depth <= scraper_max_depth(w)

\* `if depth < self.max_depth` (scraper.py:122)
extends_queue(w, depth) == depth < scraper_max_depth(w)

\* dict helpers
EmptyDict == <<>>
dict_set(d, k, v) == [x \in (DOMAIN d) \cup {k} |-> IF x = k THEN v ELSE d[x]]
dict_update(d, e) == [x \in (DOMAIN d) \cup (DOMAIN e) |-> IF x \in DOMAIN e THEN e[x] ELSE d[x]]

\* result.get('discovered_urls', [])
get_discovered_urls(result) ==
    IF "discovered_urls" \in DOMAIN result THEN result.discovered_urls ELSE {}

\* q[i:] in place of q[i::n]
stride_slice_to_end(q, i, n) == SubSeq(q, i + 1, Len(q))

\* q[i::n] of a Python list (i counted from 0)
stride_slice(q, i, n) ==
    [k \in 1..((Len(q) - i + n - 1) \div n) |-> q[i + 1 + (k - 1) * n]]

\* no loop iteration has probed a URL
NoProbe == [url |-> <<>>, head |-> [raises |-> TRUE, content_type |-> <<>>],
            skipped |-> FALSE]

\* WebsiteScraper.__init__ for the initial scraper, and the state before
\* run_scraping creates the others
RunInit ==
    /\ max_depth \in 0..MaxDepth
    /\ main_pc = "run_init_scraper"
    /\ pc = [w \in Scrapers |-> IF w = 0 THEN "loop" ELSE "not_created"]
    /\ urls_to_process = [w \in Scrapers |-> IF w = 0 THEN <<<<base_url, 0>>>> ELSE <<>>]
    /\ current = [w \in Scrapers |-> <<>>]
    /\ processed_urls = [w \in Scrapers |-> {}]
    /\ error_urls = [w \in Scrapers |-> {}]
    /\ results = [w \in Scrapers |-> EmptyDict]
    /\ aggregate = EmptyDict
    /\ started = [u \in Pages |-> 0]
    /\ fetch_failed = [w \in Scrapers |-> {}]
    /\ selenium_driver = [w \in Scrapers |-> "None"]
    /\ selenium_log = NoLog
    /\ finally_quit = [w \in Scrapers |-> FALSE]
    /\ last_probe = NoProbe

\* a crawl of one of the sites
CrawlInit == site \in Sites /\ RunInit

\* a crawl of a site that links to a media file
MediaCrawlInit == site \in MediaSites /\ RunInit

\* scraper.py:69-78: the iteration `continue`s before it looks at the kind
\* of URL
skips(w, normalized_url) ==
    \/ ~InScope[normalized_url]
    \/ normalized_url \in processed_urls[w]
    \/ normalized_url \in error_urls[w]
    \/ is_visited(normalized_url)

\* scraper.py:80: the iteration of scraper w reaches the test and the URL
\* at the head of its queue is suspicious, so is_image_content_type is called
probes(w) ==
    LET current_url == Head(urls_to_process[w])[1]
    IN  ~skips(w, NormalizeUrl[current_url]) /\ IsSuspiciousUrl[current_url]

\* the answers the HEAD request of scraper.py:81 can get, if it is made
probe_heads(w) == IF probes(w) THEN HeadResponses ELSE {NoProbe.head}

\* scraper.py:65-83: whether the iteration `continue`s, given the answer to
\* its probe, and what is remembered of the probe
continues(w, head, skipped) ==
    /\ skipped = IF probes(w) THEN is_image_content_type(head)
                 ELSE skips(w, NormalizeUrl[Head(urls_to_process[w])[1]])
    /\ last_probe' = IF probes(w)
                     THEN [url |-> Head(urls_to_process[w])[1], head |-> head,
                           skipped |-> skipped]
                     ELSE NoProbe

\* a skip that puts the URL back at the end of the queue
scrape_skip_requeues(w) ==
    /\ pc[w] = "loop"
    /\ urls_to_process[w] # <<>>
    /\ \E head \in probe_heads(w) : continues(w, head, TRUE)
    /\ urls_to_process' = [urls_to_process EXCEPT ![w] = Append(Tail(@), Head(@))]
    /\ UNCHANGED <<site, max_depth, main_pc, pc, current, processed_urls, error_urls,
                   results, aggregate, started, fetch_failed>>
    /\ UNCHANGED <<tracker_vars, fetch_vars, limiter_vars, helper_vars, task_vars, main_vars, sd_vars>>
    /\ UNCHANGED <<selenium_driver, selenium_log, finally_quit>>

\* scraper.py:65-83: pop the next URL and skip it
scrape_skip(w) ==
    /\ pc[w] = "loop"
    /\ urls_to_process[w] # <<>>
    /\ \E head \in probe_heads(w) : continues(w, head, TRUE)
    /\ urls_to_process' = [urls_to_process EXCEPT ![w] = Tail(@)]
    /\ UNCHANGED <<site, max_depth, main_pc, pc, current, processed_urls, error_urls,
                   results, aggregate, started, fetch_failed>>
    /\ UNCHANGED <<tracker_vars, fetch_vars, limiter_vars, helper_vars, task_vars, main_vars, sd_vars>>
    /\ UNCHANGED <<selenium_driver, selenium_log, finally_quit>>

\* scraper.py:65-94: pop the next URL, pass the checks, wait for the rate
\* limiter and call process_page
scrape_process(w) ==
    /\ pc[w] = "loop"
    /\ urls_to_process[w] # <<>>
    /\ \E head \in probe_heads(w) : continues(w, head, FALSE)
    /\ LET current_url == Head(urls_to_process[w])[1]
           normalized_url == NormalizeUrl[current_url]
       IN  started' = [started EXCEPT ![normalized_url] = @ + 1]
    /\ current' = [current EXCEPT ![w] = Head(urls_to_process[w])]
    /\ urls_to_process' = [urls_to_process EXCEPT ![w] = Tail(@)]
    /\ pc' = [pc EXCEPT ![w] = "process_page"]
    /\ UNCHANGED <<site, max_depth, main_pc, processed_urls, error_urls,
                   results, aggregate, fetch_failed>>
    /\ UNCHANGED <<tracker_vars, fetch_vars, limiter_vars, helper_vars, task_vars, main_vars, sd_vars>>
    /\ UNCHANGED <<selenium_driver, selenium_log, finally_quit>>

\* extract_urls (url_processor.py:147-159): urljoin raises on an href
\* urlparse rejects and the except clause returns the empty set
extract_urls(hrefs) ==
    IF \E url \in hrefs : NormalizeUrlRaises[url] THEN {} ELSE hrefs

\* process_page (content_processor.py:36-60): what it returns when
\* fetch_page returned (fetched.ok) or raised after its last attempt.  The
\* hrefs are the ones fetch_with_selenium collected from the browser, or
\* the ones extract_urls finds in the static content.  The except clause
\* of process_page turns the error of fetch_page into a tuple of None.
process_page(url, fetched) ==
    IF fetched.ok
    THEN [extracted_text |-> "text",
          discovered_urls |-> IF fetched.via_selenium THEN site[NormalizeUrl[url]]
                              ELSE extract_urls(site[NormalizeUrl[url]])]
    ELSE [extracted_text |-> "None", discovered_urls |-> {}]

\* WebsiteScraper.get_selenium_driver (scraper.py:48-51)
get_selenium_driver(w) ==
    IF selenium_driver[w] = "None" THEN "no_driver" ELSE selenium_driver[w]

\* the driver bookkeeping of a process_page call whose fetch_page went as `fetched`
driver_used(w, fetched) ==
    /\ selenium_driver' = [selenium_driver EXCEPT ![w] = fetched.driver]
    /\ selenium_log' = [scraper |-> w, before |-> selenium_driver[w],
                        created |-> fetched.created, quit |-> fetched.quit,
                        failures |-> fetched.failures]
    /\ UNCHANGED finally_quit

\* scraper.py:109-113: the record written for a page process_page returned
page_record(page, all_discovered_urls) ==
    [content |-> page.extracted_text, discovered_urls |-> all_discovered_urls]

\* scraper.py:137-139: the record written by the generic except clause
error_record == [content |-> "error_message"]

\* scraper.py:96-124: process_page returned and every discovered URL
\* normalizes; the result is stored, the URL marked visited and the
\* in-scope links are queued
scrape_record(w) ==
    /\ pc[w] = "process_page"
    /\ \E fetched \in FetchResults[get_selenium_driver(w)] :
        LET current_url == current[w][1]
            depth == current[w][2]
            normalized_url == NormalizeUrl[current_url]
            page == process_page(current_url, fetched)
            all_discovered_urls == {NormalizeUrl[url] : url \in page.discovered_urls}
            urls_for_processing ==
                ({url \in all_discovered_urls : InScope[url]}
                    \ processed_urls[w]) \ error_urls[w]
            sorted_urls_for_processing == Sorted[urls_for_processing]
        IN  /\ \A url \in page.discovered_urls : ~NormalizeUrlRaises[url]
            /\ results' = [results EXCEPT ![w] =
                   dict_set(@, normalized_url, page_record(page, all_discovered_urls))]
            /\ processed_urls' = [processed_urls EXCEPT ![w] = @ \cup {normalized_url}]
            /\ visited_urls' = mark_visited_set(normalized_url)
            /\ urls_to_process' = [urls_to_process EXCEPT ![w] =
                   IF extends_queue(w, depth)
                   THEN @ \o [i \in 1..Len(sorted_urls_for_processing) |->
                                 <<sorted_urls_for_processing[i], depth + 1>>]
                   ELSE @]
            /\ fetch_failed' = IF fetched.ok THEN fetch_failed
                               ELSE [fetch_failed EXCEPT ![w] = @ \cup {normalized_url}]
            /\ driver_used(w, fetched)
    /\ pc' = [pc EXCEPT ![w] = "loop"]
    /\ current' = [current EXCEPT ![w] = <<>>]
    /\ UNCHANGED <<site, max_depth, main_pc, error_urls, aggregate, started>>
    /\ UNCHANGED <<url_pool, last_op, last_return, fetch_vars, limiter_vars, helper_vars, task_vars, main_vars, sd_vars>>
    /\ UNCHANGED last_probe

\* scraper.py:97 raises (normalize_url of a discovered href urlparse
\* rejects) and scraper.py:134-140 handles it
scrape_except(w) ==
    /\ pc[w] = "process_page"
    /\ \E fetched \in FetchResults[get_selenium_driver(w)] :
        LET current_url == current[w][1]
            normalized_url == NormalizeUrl[current_url]
            page == process_page(current_url, fetched)
        IN  /\ \E url \in page.discovered_urls : NormalizeUrlRaises[url]
            /\ results' = [results EXCEPT ![w] = dict_set(@, normalized_url, error_record)]
            /\ error_urls' = [error_urls EXCEPT ![w] = @ \cup {normalized_url}]
            /\ driver_used(w, fetched)
    /\ pc' = [pc EXCEPT ![w] = "loop"]
    /\ current' = [current EXCEPT ![w] = <<>>]
    /\ UNCHANGED <<site, max_depth, main_pc, urls_to_process, processed_urls,
                   aggregate, started, fetch_failed>>
    /\ UNCHANGED <<tracker_vars, fetch_vars, limiter_vars, helper_vars, task_vars, main_vars, sd_vars>>
    /\ UNCHANGED last_probe

\* a finally clause that does not quit the driver
finally_clause_skipped(driver) == driver

\* scraper.py:141-144 and quit_selenium (selenium_processor.py:114-118):
\* the state the finally clause leaves a driver in
finally_clause(driver) == IF driver = "live" THEN "no_driver" ELSE driver

\* scraper.py:65, 141-146: the queue is empty, the finally clause runs and
\* scrape() returns self.results
scrape_return(w) ==
    /\ pc[w] = "loop"
    /\ urls_to_process[w] = <<>>
    /\ pc' = [pc EXCEPT ![w] = "returned"]
    /\ selenium_driver' = [selenium_driver EXCEPT ![w] = finally_clause(@)]
    /\ finally_quit' = [finally_quit EXCEPT ![w] = (selenium_driver[w] = "live")]
    /\ UNCHANGED <<site, max_depth, main_pc, urls_to_process, current, processed_urls,
                   error_urls, results, aggregate, started, fetch_failed, selenium_log>>
    /\ UNCHANGED <<tracker_vars, fetch_vars, limiter_vars, helper_vars, task_vars, main_vars, sd_vars>>
    /\ UNCHANGED last_probe

\* the states the driver of a scraper can be in while process_page is
\* awaited: as the iteration found it, or with the SeleniumDriver made
\* (scraper.py:93) and its driver set up or quit after a failure
drivers_in_flight(driver) == {driver, "no_driver", "live"}

\* the run is interrupted (KeyboardInterrupt under asyncio.run): the task
\* of run_scraping is cancelled, CancelledError is raised at the await every
\* running scrape() is suspended in, passes the except clauses
\* (scraper.py:126, 134: it is no Exception) and leaves scrape() through
\* the finally clause (scraper.py:141-144)
interrupt ==
    /\ main_pc \in {"run_init_scraper", "gather"}
    /\ \E w \in Scrapers : pc[w] = "process_page"
    /\ \E in_flight \in [Scrapers -> DriverStates] :
        /\ \A w \in Scrapers :
               in_flight[w] \in IF pc[w] = "process_page"
                                THEN drivers_in_flight(selenium_driver[w])
                                ELSE {selenium_driver[w]}
        /\ selenium_driver' = [w \in Scrapers |->
               IF pc[w] \in {"loop", "process_page"}
               THEN finally_clause(in_flight[w]) ELSE selenium_driver[w]]
        /\ finally_quit' = [w \in Scrapers |->
               IF pc[w] \in {"loop", "process_page"}
               THEN in_flight[w] = "live" ELSE finally_quit[w]]
    /\ pc' = [w \in Scrapers |->
           IF pc[w] \in {"loop", "process_page"} THEN "cancelled" ELSE pc[w]]
    /\ main_pc' = "interrupted"
    /\ UNCHANGED <<site, max_depth, urls_to_process, current, processed_urls,
                   error_urls, results, aggregate, started, fetch_failed, selenium_log>>
    /\ UNCHANGED <<tracker_vars, fetch_vars, limiter_vars, helper_vars, task_vars, main_vars, sd_vars>>
    /\ UNCHANGED last_probe

\* main.py:62-67: the links of the initial results that match the base
initial_discovered_urls ==
    {url \in UNION {get_discovered_urls(results[0][k]) : k \in DOMAIN results[0]} :
        UrlMatchesBase[url]}

\* main.py:71-89: the initial scraper is done, the discovered URLs are
\* dealt out to the scrapers and the scrapers are started
start_scrapers ==
    /\ main_pc = "run_init_scraper"
    /\ pc[0] = "returned"
    /\ max_depth > 0 /\ initial_discovered_urls # {}
    /\ \E order \in list_orders(initial_discovered_urls) :
        urls_to_process' = [w \in Scrapers |->
            IF w = 0 THEN urls_to_process[0]
            ELSE LET batch == stride_slice(order, w - 1, MAX_SIMULTANEOUS_SCRAPERS)
                 IN  [i \in 1..Len(batch) |-> <<batch[i], 1>>]]
    /\ pc' = [w \in Scrapers |-> IF w = 0 THEN pc[0] ELSE "loop"]
    /\ main_pc' = "gather"
    /\ UNCHANGED <<site, max_depth, current, processed_urls, error_urls, results,
                   aggregate, started, fetch_failed>>
    /\ UNCHANGED <<tracker_vars, fetch_vars, limiter_vars, helper_vars, task_vars, main_vars, sd_vars>>
    /\ UNCHANGED <<selenium_driver, selenium_log, finally_quit>>
    /\ UNCHANGED last_probe

\* the loop of main.py:91-93 over the scrapers' results, in scraper order
RECURSIVE collate(_, _)
collate(collated_results, w) ==
    IF w > MAX_SIMULTANEOUS_SCRAPERS THEN collated_results
    ELSE collate(dict_update(collated_results, results[w]), w + 1)

\* main.py:89-96: every scraper returned, the results are collated
gather_done ==
    /\ main_pc = "gather"
    /\ \A w \in Workers : pc[w] = "returned"
    /\ aggregate' = collate(EmptyDict, 1)
    /\ main_pc' = "done"
    /\ UNCHANGED <<site, max_depth, pc, urls_to_process, current, processed_urls,
                   error_urls, results, started, fetch_failed>>
    /\ UNCHANGED <<tracker_vars, fetch_vars, limiter_vars, helper_vars, task_vars, main_vars, sd_vars>>
    /\ UNCHANGED <<selenium_driver, selenium_log, finally_quit>>
    /\ UNCHANGED last_probe

\* main.py:97-99: depth 0 or nothing discovered, the initial results are the output
single_page_done ==
    /\ main_pc = "run_init_scraper"
    /\ pc[0] = "returned"
    /\ ~(max_depth > 0 /\ initial_discovered_urls # {})
    /\ aggregate' = results[0]
    /\ main_pc' = "done"
    /\ UNCHANGED <<site, max_depth, pc, urls_to_process, current, processed_urls,
                   error_urls, results, started, fetch_failed>>
    /\ UNCHANGED <<tracker_vars, fetch_vars, limiter_vars, helper_vars, task_vars, main_vars, sd_vars>>
    /\ UNCHANGED <<selenium_driver, selenium_log, finally_quit>>
    /\ UNCHANGED last_probe

(***************************************************************************)
(* fetch_page (modules/processors/content_processor.py:62-133)             *)
(***************************************************************************)
ForceMethods == {"None", "req", "sel"}

RECURSIVE pow2(_)
pow2(n) == IF n = 0 THEN 1 ELSE 2 * pow2(n - 1)

\* content_processor.py:284
DYNAMIC_TEXT_THRESHOLD == 500

\* len(text) of the text extract_text_from_html returns for a static content
TextLengths == {0, 40, 499, 500, 501, 2000}

\* response.content of a static fetch: bytes that decode as UTF-8 to HTML
\* with a visible text of text_len characters, or bytes that do not decode
StaticContents ==
    {[decodes |-> TRUE, text_len |-> n] : n \in TextLengths}
        \cup {[decodes |-> FALSE, text_len |-> 0]}

\* no attempt was made
NoAttempt == [content |-> [decodes |-> FALSE, text_len |-> 0], static_ok |-> FALSE,
              ok |-> FALSE, static |-> 0, sel |-> 0]

\* a threshold that counts a text of exactly the threshold length as dynamic
is_dynamic_content_inclusive(content) ==
    IF ~content.decodes THEN TRUE ELSE content.text_len <= DYNAMIC_TEXT_THRESHOLD

\* is_dynamic_content (content_processor.py:270-287)
is_dynamic_content(content) ==
    IF ~content.decodes THEN TRUE ELSE content.text_len < DYNAMIC_TEXT_THRESHOLD

\* fetch_page is called
FetchInit ==
    /\ f_pc = "loop"
    /\ f_max_retries \in 0..MaxRetriesArg
    /\ f_initial_delay \in 1..MaxDelayArg
    /\ f_force \in ForceMethods
    /\ f_driver \in BOOLEAN
    /\ f_attempt = 0
    /\ f_attempts = 0
    /\ f_sleeps = <<>>
    /\ f_static_calls = 0
    /\ f_sel_calls = 0
    /\ f_last = NoAttempt

\* range(max_retries) still has an attempt to give
has_attempt == f_attempt < f_max_retries

\* the test of content_processor.py:126 off by one
retries_left_off_by_one == f_attempt < f_max_retries

\* content_processor.py:126: the failed attempt is not the last one
retries_left == f_attempt < f_max_retries - 1

\* content_processor.py:127
retry_delay == f_initial_delay * pow2(f_attempt)

\* the bookkeeping every attempt does
attempt_made(a) ==
    /\ f_attempts' = f_attempts + 1
    /\ f_static_calls' = f_static_calls + a.static
    /\ f_sel_calls' = f_sel_calls + a.sel
    /\ UNCHANGED <<f_max_retries, f_initial_delay, f_force, f_driver>>
    /\ UNCHANGED <<tracker_vars, crawl_vars, limiter_vars, helper_vars, task_vars, main_vars, sd_vars>>

\* what the last attempt was given and did
attempt_seen(a, static_ok, content) ==
    f_last' = [content |-> IF static_ok /\ a.static = 1 THEN content
                           ELSE NoAttempt.content,
               static_ok |-> static_ok /\ a.static = 1,
               ok |-> a.ok, static |-> a.static, sel |-> a.sel]

\* content_processor.py:87-122: an attempt succeeds and fetch_page returns
fetch_attempt_returns ==
    /\ f_pc = "loop" /\ has_attempt
    /\ \E static_ok, sel_ok \in BOOLEAN, content \in StaticContents :
        LET a == attempt_body(f_force, f_driver, static_ok,
                              is_dynamic_content(content), sel_ok)
        IN  a.ok /\ attempt_made(a) /\ attempt_seen(a, static_ok, content)
    /\ f_pc' = "returned"
    /\ UNCHANGED <<f_attempt, f_sleeps>>

\* content_processor.py:123-129: an attempt fails, fetch_page sleeps and retries
fetch_attempt_retries ==
    /\ f_pc = "loop" /\ has_attempt
    /\ \E static_ok, sel_ok \in BOOLEAN, content \in StaticContents :
        LET a == attempt_body(f_force, f_driver, static_ok,
                              is_dynamic_content(content), sel_ok)
        IN  ~a.ok /\ attempt_made(a) /\ attempt_seen(a, static_ok, content)
    /\ retries_left
    /\ f_sleeps' = Append(f_sleeps, retry_delay)
    /\ f_attempt' = f_attempt + 1
    /\ UNCHANGED f_pc

\* content_processor.py:123-133: the last attempt fails, fetch_page re-raises
fetch_attempt_raises ==
    /\ f_pc = "loop" /\ has_attempt
    /\ \E static_ok, sel_ok \in BOOLEAN, content \in StaticContents :
        LET a == attempt_body(f_force, f_driver, static_ok,
                              is_dynamic_content(content), sel_ok)
        IN  ~a.ok /\ attempt_made(a) /\ attempt_seen(a, static_ok, content)
    /\ ~retries_left
    /\ f_pc' = "raised"
    /\ UNCHANGED <<f_attempt, f_sleeps>>

\* content_processor.py:87: range(max_retries) is empty, the function body
\* ends and fetch_page returns None
fetch_falls_through ==
    /\ f_pc = "loop" /\ ~has_attempt
    /\ f_pc' = "returned_none"
    /\ UNCHANGED <<f_max_retries, f_initial_delay, f_force, f_driver, f_attempt,
                   f_attempts, f_sleeps, f_static_calls, f_sel_calls, f_last>>
    /\ UNCHANGED <<tracker_vars, crawl_vars, limiter_vars, helper_vars, task_vars, main_vars, sd_vars>>

(***************************************************************************)
(* AsyncRateLimiter (modules/utils/utils.py:18-51).  Time is counted in    *)
(* ticks.  A wait call that does not sleep runs without giving up the      *)
(* event loop; one that sleeps is two steps, up to asyncio.sleep and from  *)
(* its return on.  RateLimiter.wait (content_extractor.py:9-21) is the     *)
(* same code for one domain with a blocking sleep.                         *)
(***************************************************************************)
Tasks == {1, 2}
Limiters == {1, 2}
Domains == {get_domain(Seed), get_domain(Foreign)}

\* time.time() when the first limiter is made: the clock counts from the
\* epoch, so it is later than any delay
StartTime == MaxRateDelay + 1
\* the last tick of the clock
EndTime == StartTime + ClockSpan

\* a suspended wait call: its domain, the number of calls that had
\* returned when it began, the time asyncio.sleep is over
NoCall == [domain |-> <<>>, after |-> 0, wake |-> 0]

\* AsyncRateLimiter.__init__ (utils.py:31-34) for each limiter, and tasks
\* that share one limiter or have one each, as every WebsiteScraper has
\* (scraper.py:41)
LimiterInit ==
    /\ now = StartTime
    /\ max_delay \in 0..MaxRateDelay
    /\ min_delay \in 0..max_delay
    /\ last_request_times = [l \in Limiters |-> [d \in Domains |-> 0]]
    /\ limiter_of \in {[t \in Tasks |-> 1], [t \in Tasks |-> t]}
    /\ wait_pc = [t \in Tasks |-> "idle"]
    /\ wait_call = [t \in Tasks |-> NoCall]
    /\ dispatches = <<>>

\* a wait that reads the latest time of any domain
last_request_time_of_any(l, domain) ==
    CHOOSE latest \in {last_request_times[l][d] : d \in Domains} :
        \A d \in Domains : last_request_times[l][d] <= latest

\* utils.py:47: self.last_request_times[domain]
last_request_time(l, domain) == last_request_times[l][domain]

\* a wait that does not sleep
sleep_time_none(delay, elapsed) == 0

\* utils.py:49-50: the time wait sleeps
sleep_time(delay, elapsed) == IF elapsed < delay THEN delay - elapsed ELSE 0

\* utils.py:51: the timestamp is written and wait returns
dispatch(t, domain, after) ==
    /\ last_request_times' = [last_request_times EXCEPT ![limiter_of[t]][domain] = now]
    /\ dispatches' = Append(dispatches,
           [task |-> t, domain |-> domain, after |-> after, time |-> now])

\* the number of wait calls begun so far
waits_begun == Len(dispatches) + Cardinality({t \in Tasks : wait_pc[t] = "sleeping"})

\* utils.py:46-51 with elapsed >= delay: wait returns without sleeping
wait_through(t, domain) ==
    /\ wait_pc[t] = "idle"
    /\ waits_begun < MaxDispatches
    /\ \E delay \in min_delay..max_delay :
        sleep_time(delay, now - last_request_time(limiter_of[t], domain)) = 0
    /\ dispatch(t, domain, Len(dispatches))
    /\ UNCHANGED <<now, min_delay, max_delay, limiter_of, wait_pc, wait_call>>
    /\ UNCHANGED <<tracker_vars, crawl_vars, fetch_vars, helper_vars, task_vars, main_vars, sd_vars>>

\* utils.py:46-50 with elapsed < delay: wait calls asyncio.sleep
wait_sleeps(t, domain) ==
    /\ wait_pc[t] = "idle"
    /\ waits_begun < MaxDispatches
    /\ \E delay \in min_delay..max_delay :
        /\ sleep_time(delay, now - last_request_time(limiter_of[t], domain)) > 0
        /\ now + sleep_time(delay, now - last_request_time(limiter_of[t], domain)) <= EndTime
        /\ wait_call' = [wait_call EXCEPT ![t] =
               [domain |-> domain, after |-> Len(dispatches),
                wake |-> now + sleep_time(delay, now - last_request_time(limiter_of[t], domain))]]
    /\ wait_pc' = [wait_pc EXCEPT ![t] = "sleeping"]
    /\ UNCHANGED <<now, min_delay, max_delay, last_request_times, limiter_of, dispatches>>
    /\ UNCHANGED <<tracker_vars, crawl_vars, fetch_vars, helper_vars, task_vars, main_vars, sd_vars>>

\* utils.py:50-51: asyncio.sleep returns, not before the time asked for
wait_wakes(t) ==
    /\ wait_pc[t] = "sleeping"
    /\ now >= wait_call[t].wake
    /\ dispatch(t, wait_call[t].domain, wait_call[t].after)
    /\ wait_pc' = [wait_pc EXCEPT ![t] = "idle"]
    /\ wait_call' = [wait_call EXCEPT ![t] = NoCall]
    /\ UNCHANGED <<now, min_delay, max_delay, limiter_of>>
    /\ UNCHANGED <<tracker_vars, crawl_vars, fetch_vars, helper_vars, task_vars, main_vars, sd_vars>>

\* time passes
tick ==
    /\ now < EndTime
    /\ now' = now + 1
    /\ UNCHANGED <<min_delay, max_delay, last_request_times, limiter_of, wait_pc,
                   wait_call, dispatches>>
    /\ UNCHANGED <<tracker_vars, crawl_vars, fetch_vars, helper_vars, task_vars, main_vars, sd_vars>>

(***************************************************************************)
(* main() (main.py:117-206) with the sitemap bootstrap                      *)
(* (modules/utils/sitemap_parser.py).  The crawl that run_scraping runs is  *)
(* the crawl specification; here the call is an event with an outcome.     *)
(***************************************************************************)
\* str.strip of blanks
strip(s) ==
    LET kept == {i \in 1..Len(s) : s[i] # " "}
    IN  IF kept = {} THEN <<>>
        ELSE SubSeq(s, CHOOSE i \in kept : \A j \in kept : i <= j,
                       CHOOSE i \in kept : \A j \in kept : j <= i)

\* "https://e.c/s.xml": a <loc> that names a sub-sitemap
SubSitemapUrl == Seed \o <<"/", "s", ".", "x", "m", "l">>

\* the <loc> elements of a sitemap: elem.text is None, or a str
LocElements ==
    {[has_text |-> FALSE, text |-> <<>>]}
        \cup {[has_text |-> TRUE, text |-> t] :
                t \in {PageA, <<" ">> \o PageB \o <<" ">>, Foreign, SubSitemapUrl}}

\* what a sitemap location answers: no XML response (an error status, a
\* RequestException, another Content-Type), text that is not XML, or a
\* document with its <loc> elements in order
SitemapResponses ==
    {[found |-> FALSE, well_formed |-> FALSE, locs |-> <<>>],
     [found |-> TRUE, well_formed |-> FALSE, locs |-> <<>>]}
        \cup {[found |-> TRUE, well_formed |-> TRUE, locs |-> l] :
                l \in {<<>>} \cup {<<e>> : e \in LocElements}
                        \cup {<<PageElement, e>> : PageElement \in {[has_text |-> TRUE, text |-> PageA]},
                                                   e \in LocElements}}

\* the return value of a sitemap function, or the exception that leaves it
NoUrls == [raises |-> FALSE, urls |-> {}]

\* parse_sub_sitemap(url, base_url) (sitemap_parser.py:95-114), response:
\* what the sub-sitemap URL answers
parse_sub_sitemap(response, base) ==
    IF ~response.found \/ ~response.well_formed THEN NoUrls
    ELSE IF \E i \in 1..Len(response.locs) : ~response.locs[i].has_text
         THEN [raises |-> TRUE, urls |-> {}]
         ELSE [raises |-> FALSE,
               urls |-> {strip(response.locs[i].text) : i \in
                            {j \in 1..Len(response.locs) :
                                is_valid_url(strip(response.locs[j].text), base)}}]

\* parse_sitemap_xml(xml_content, base_url) (sitemap_parser.py:69-93)
parse_sitemap_xml(document, sub_response, base) ==
    IF ~document.well_formed THEN NoUrls
    ELSE LET texts == [i \in 1..Len(document.locs) |-> strip(document.locs[i].text)]
             is_sub(i) == endswith(texts[i], <<".", "x", "m", "l">>)
             sub == parse_sub_sitemap(sub_response, base)
         IN  IF \/ \E i \in 1..Len(texts) : ~document.locs[i].has_text
                \/ \E i \in 1..Len(texts) : is_sub(i) /\ sub.raises
             THEN [raises |-> TRUE, urls |-> {}]
             ELSE [raises |-> FALSE,
                   urls |-> UNION {IF is_sub(i) THEN sub.urls
                                   ELSE IF is_valid_url(texts[i], base) THEN {texts[i]}
                                   ELSE {} : i \in 1..Len(texts)}]

\* parse_sitemap(base_url) (sitemap_parser.py:24-37); fetch_sitemap returns
\* None when no location answers with XML
parse_sitemap(response, sub_response, base) ==
    IF response.found THEN parse_sitemap_xml(response, sub_response, base) ELSE NoUrls

\* the url arguments: "https://e.c", "e.c", "", "https://", a media URL and
\* a URL urlparse rejects
UrlArgs == {Seed, <<"e", ".", "c">>, <<>>, <<"h", "t", "t", "p", "s", ":", "/", "/">>, Image, Malformed}

\* the depth arguments: argparse type=int takes negative numbers
DepthArgs == -1 .. MaxDepth

MainInputs ==
    [url : UrlArgs, depth : DepthArgs, sitemap : SitemapResponses,
     sub_sitemap : {r \in SitemapResponses : Len(r.locs) <= 1}]

NoLocals == [base_url |-> <<>>, sitemap_urls |-> <<>>]

MainIdle ==
    /\ m_in = [url |-> <<>>, depth |-> 0, sitemap |-> [found |-> FALSE, well_formed |-> FALSE, locs |-> <<>>],
               sub_sitemap |-> [found |-> FALSE, well_formed |-> FALSE, locs |-> <<>>]]
    /\ m_pc = "idle"
    /\ m_locals = NoLocals
    /\ m_events = <<>>

\* main() is called: parser.parse_args() (main.py:152)
MainInit ==
    /\ m_in \in MainInputs
    /\ m_pc = "parsed"
    /\ m_locals = NoLocals
    /\ m_events = <<>>

\* the except and finally clauses of main (main.py:201-206)
main_except ==
    /\ m_events' = Append(m_events, "error_logged")
    /\ m_pc' = "done"

\* base_url = normalize_url(args.url) (main.py:154); a ValueError here is
\* outside the try block and ends the process
main_normalize ==
    /\ m_pc = "parsed"
    /\ LET normalized == normalize_url_result(m_in.url)
       IN  IF normalized.raises
           THEN m_pc' = "crashed" /\ UNCHANGED m_locals
           ELSE /\ m_pc' = "try"
                /\ m_locals' = [m_locals EXCEPT !.base_url = normalized.value]
    /\ UNCHANGED <<m_in, m_events>>
    /\ UNCHANGED <<tracker_vars, crawl_vars, fetch_vars, limiter_vars, helper_vars, task_vars, sd_vars>>

\* sitemap_urls = get_sitemap(base_url) (main.py:177, sitemap_parser.py:22)
main_get_sitemap ==
    /\ m_pc = "try"
    /\ LET parsed == parse_sitemap(m_in.sitemap, m_in.sub_sitemap, m_locals.base_url)
       IN  IF parsed.raises
           THEN main_except /\ UNCHANGED m_locals
           ELSE /\ m_pc' = "fetched"
                /\ m_locals' = [m_locals EXCEPT !.sitemap_urls = sorted(parsed.urls)]
                /\ m_events' = Append(m_events, "get_sitemap")
    /\ UNCHANGED m_in
    /\ UNCHANGED <<tracker_vars, crawl_vars, fetch_vars, limiter_vars, helper_vars, task_vars, sd_vars>>

\* the two tests of main.py:184-188
config_error(base, depth) == ~is_valid_url(base, base) \/ depth < 0

\* the validation and the call of run_scraping (main.py:184-192)
main_validate ==
    /\ m_pc = "fetched"
    /\ IF config_error(m_locals.base_url, m_in.depth)
       THEN main_except
       ELSE /\ m_pc' = "run_scraping"
            /\ m_events' = Append(m_events, "run_scraping")
    /\ UNCHANGED <<m_in, m_locals>>
    /\ UNCHANGED <<tracker_vars, crawl_vars, fetch_vars, limiter_vars, helper_vars, task_vars, sd_vars>>

\* asyncio.run(run_scraping(...)) returns or raises; save_output
\* (main.py:190-199)
main_save ==
    /\ m_pc = "run_scraping"
    /\ \E returned \in BOOLEAN :
           IF returned
           THEN m_pc' = "done" /\ m_events' = Append(m_events, "save_output")
           ELSE main_except
    /\ UNCHANGED <<m_in, m_locals>>
    /\ UNCHANGED <<tracker_vars, crawl_vars, fetch_vars, limiter_vars, helper_vars, task_vars, sd_vars>>

(***************************************************************************)
(* SeleniumDriver.fetch_with_selenium attempt by attempt                   *)
(* (modules/processors/selenium_processor.py:93-211).  WebDrivers are      *)
(* numbered in the order they are created.                                 *)
(***************************************************************************)
\* the awaits of one attempt, in order (selenium_processor.py:136-202)
AttemptSteps ==
    <<"get", "wait_body", "wait_ready_state", "scroll", "wait_jquery", "page_source",
      "find_links">>

\* SeleniumDriver.__init__: self.driver = None; no call is running
SeleniumIdle ==
    /\ sd_driver = 0
    /\ sd_pc = "idle"
    /\ sd_attempt = 0
    /\ sd_step = 1
    /\ sd_local = 0
    /\ sd_quit = {}
    /\ sd_created = 0
    /\ sd_used = <<>>

\* SeleniumDriver.quit_selenium (selenium_processor.py:114-118), called by
\* the owner of the object between two calls of fetch_with_selenium
quit_selenium ==
    /\ sd_pc # "attempt"
    /\ sd_driver # 0
    /\ sd_quit' = sd_quit \cup {sd_driver}
    /\ sd_driver' = 0
    /\ UNCHANGED <<sd_pc, sd_attempt, sd_step, sd_local, sd_created, sd_used>>
    /\ UNCHANGED <<tracker_vars, crawl_vars, fetch_vars, limiter_vars, helper_vars, task_vars, main_vars>>

\* fetch_with_selenium is called: driver = self.setup_selenium()
\* (selenium_processor.py:133, 93-112), which makes a WebDriver when
\* self.driver is None and raises when geckodriver cannot be set up; the
\* first attempt begins on the local variable driver
fetch_with_selenium_begins ==
    /\ sd_pc \in {"idle", "returned", "failed", "raised"}
    /\ sd_created < MaxDrivers
    /\ \E set_up \in BOOLEAN :
           IF sd_driver # 0
           THEN /\ sd_local' = sd_driver
                /\ sd_pc' = "attempt"
                /\ sd_used' = <<[driver |-> sd_driver, running |-> TRUE]>>
                /\ UNCHANGED <<sd_driver, sd_created>>
           ELSE IF set_up
                THEN /\ sd_created' = sd_created + 1
                     /\ sd_driver' = sd_created + 1
                     /\ sd_local' = sd_created + 1
                     /\ sd_pc' = "attempt"
                     /\ sd_used' = <<[driver |-> sd_created + 1, running |-> TRUE]>>
                ELSE /\ sd_pc' = "raised"
                     /\ sd_used' = <<>>
                     /\ UNCHANGED <<sd_driver, sd_created, sd_local>>
    /\ sd_attempt' = 0
    /\ sd_step' = 1
    /\ UNCHANGED sd_quit
    /\ UNCHANGED <<tracker_vars, crawl_vars, fetch_vars, limiter_vars, helper_vars, task_vars, main_vars>>

\* an await of the attempt returns: the browser answers only when the
\* WebDriver of the local variable driver is running
attempt_advances ==
    /\ sd_pc = "attempt"
    /\ sd_local \notin sd_quit
    /\ sd_step < Len(AttemptSteps)
    /\ sd_step' = sd_step + 1
    /\ UNCHANGED <<sd_driver, sd_pc, sd_attempt, sd_local, sd_quit, sd_created, sd_used>>
    /\ UNCHANGED <<tracker_vars, crawl_vars, fetch_vars, limiter_vars, helper_vars, task_vars, main_vars>>

\* the attempt returns: (None, None, []) when page_source is None
\* (selenium_processor.py:195-197), else the page (line 204)
attempt_returns ==
    /\ sd_pc = "attempt"
    /\ sd_local \notin sd_quit
    /\ AttemptSteps[sd_step] \in {"page_source", "find_links"}
    /\ sd_pc' = IF AttemptSteps[sd_step] = "page_source" THEN "failed" ELSE "returned"
    /\ UNCHANGED <<sd_driver, sd_attempt, sd_step, sd_local, sd_quit, sd_created, sd_used>>
    /\ UNCHANGED <<tracker_vars, crawl_vars, fetch_vars, limiter_vars, helper_vars, task_vars, main_vars>>

\* an await of the attempt raises and the attempt is not the last
\* (selenium_processor.py:205-210): quit_selenium quits self.driver and
\* sets it to None, the local variable driver is not assigned, and the
\* next attempt begins on it
attempt_retries ==
    /\ sd_pc = "attempt"
    /\ sd_attempt < MAX_RETRIES - 1
    /\ sd_quit' = IF sd_driver # 0 THEN sd_quit \cup {sd_driver} ELSE sd_quit
    /\ sd_driver' = 0
    /\ sd_attempt' = sd_attempt + 1
    /\ sd_step' = 1
    /\ sd_used' = Append(sd_used, [driver |-> sd_local, running |-> sd_local \notin sd_quit'])
    /\ UNCHANGED <<sd_pc, sd_local, sd_created>>
    /\ UNCHANGED <<tracker_vars, crawl_vars, fetch_vars, limiter_vars, helper_vars, task_vars, main_vars>>

\* an await of the last attempt raises (selenium_processor.py:211):
\* (None, None, [])
attempt_gives_up ==
    /\ sd_pc = "attempt"
    /\ sd_attempt = MAX_RETRIES - 1
    /\ sd_pc' = "failed"
    /\ UNCHANGED <<sd_driver, sd_attempt, sd_step, sd_local, sd_quit, sd_created, sd_used>>
    /\ UNCHANGED <<tracker_vars, crawl_vars, fetch_vars, limiter_vars, helper_vars, task_vars, main_vars>>

(***************************************************************************)
(* Specifications                                                          *)
(***************************************************************************)
\* no crawl is running
CrawlIdle ==
    /\ site = [p \in Pages |-> {}]
    /\ max_depth = 0
    /\ main_pc = "idle"
    /\ pc = [w \in Scrapers |-> "not_created"]
    /\ urls_to_process = [w \in Scrapers |-> <<>>]
    /\ current = [w \in Scrapers |-> <<>>]
    /\ processed_urls = [w \in Scrapers |-> {}]
    /\ error_urls = [w \in Scrapers |-> {}]
    /\ results = [w \in Scrapers |-> EmptyDict]
    /\ aggregate = EmptyDict
    /\ started = [u \in Pages |-> 0]
    /\ fetch_failed = [w \in Scrapers |-> {}]
    /\ selenium_driver = [w \in Scrapers |-> "None"]
    /\ selenium_log = NoLog
    /\ finally_quit = [w \in Scrapers |-> FALSE]
    /\ last_probe = NoProbe

\* no fetch_page call is observed
FetchIdle ==
    /\ f_pc = "idle"
    /\ f_max_retries = 0
    /\ f_initial_delay = 0
    /\ f_force = "None"
    /\ f_driver = FALSE
    /\ f_attempt = 0
    /\ f_attempts = 0
    /\ f_sleeps = <<>>
    /\ f_static_calls = 0
    /\ f_sel_calls = 0
    /\ f_last = NoAttempt

\* no rate limiter is observed
LimiterIdle ==
    /\ now = 0
    /\ min_delay = 0
    /\ max_delay = 0
    /\ last_request_times = [l \in Limiters |-> [d \in Domains |-> 0]]
    /\ limiter_of = [t \in Tasks |-> t]
    /\ wait_pc = [t \in Tasks |-> "idle"]
    /\ wait_call = [t \in Tasks |-> NoCall]
    /\ dispatches = <<>>

\* a crawl: run_scraping with its scrapers on the shared url_tracker
Init == TrackerInit /\ CrawlInit /\ FetchIdle /\ LimiterIdle /\ HelperIdle /\ TaskIdle /\ MainIdle /\ SeleniumIdle

Next ==
    \/ \E w \in Scrapers : scrape_skip(w)
    \/ \E w \in Scrapers : scrape_process(w)
    \/ \E w \in Scrapers : scrape_record(w)
    \/ \E w \in Scrapers : scrape_except(w)
    \/ \E w \in Scrapers : scrape_return(w)
    \/ start_scrapers
    \/ gather_done
    \/ single_page_done
    \/ interrupt

Spec == Init /\ [][Next]_vars

\* a crawl nobody interrupts.  The event loop runs a task that is ready,
\* and every await of scrape() and run_scraping returns (the fetch, the
\* render and the rate-limit wait end), so a step that can be taken is
\* eventually taken.
CrawlNext ==
    \/ \E w \in Scrapers : scrape_skip(w)
    \/ \E w \in Scrapers : scrape_process(w)
    \/ \E w \in Scrapers : scrape_record(w)
    \/ \E w \in Scrapers : scrape_except(w)
    \/ \E w \in Scrapers : scrape_return(w)
    \/ start_scrapers
    \/ gather_done
    \/ single_page_done

CrawlFairness == WF_vars(CrawlNext)

FairCrawlSpec == Init /\ [][CrawlNext]_vars /\ CrawlFairness

\* a crawl of a site with links to a media file
MediaCrawlSpecInit ==
    TrackerInit /\ MediaCrawlInit /\ FetchIdle /\ LimiterIdle /\ HelperIdle /\ TaskIdle /\ MainIdle /\ SeleniumIdle

MediaCrawlSpec == MediaCrawlSpecInit /\ [][CrawlNext]_vars

\* the URLTracker driven by arbitrary callers
TrackerSpecInit == TrackerInit /\ CrawlIdle /\ FetchIdle /\ LimiterIdle /\ HelperIdle /\ TaskIdle /\ MainIdle /\ SeleniumIdle

TrackerNext ==
    \/ \E url \in TrackerUrls : mark_visited(url)
    \/ \E url \in TrackerUrls : add_to_pool(url)
    \/ \E urls \in SUBSET TrackerUrls : add_bulk_to_pool(urls)
    \/ get_next_url
    \/ \E url \in TrackerUrls : return_url_to_pool(url)
    \/ clear_pool

TrackerSpec == TrackerSpecInit /\ [][TrackerNext]_vars

\* the URLTracker called by the tasks of one event loop
TaskSpecInit == TrackerInit /\ CrawlIdle /\ FetchIdle /\ LimiterIdle /\ HelperIdle /\ TaskIdle /\ MainIdle /\ SeleniumIdle

TaskNext == \E t \in Callers : task_runs(t)

TaskSpec == TaskSpecInit /\ [][TaskNext]_vars

\* one run of main
MainSpecInit ==
    TrackerInit /\ CrawlIdle /\ FetchIdle /\ LimiterIdle /\ HelperIdle /\ TaskIdle /\ MainInit
        /\ SeleniumIdle

MainNext == main_normalize \/ main_get_sitemap \/ main_validate \/ main_save

MainSpec == MainSpecInit /\ [][MainNext]_vars

\* the calls of fetch_with_selenium on one SeleniumDriver
SeleniumSpecInit ==
    TrackerInit /\ CrawlIdle /\ FetchIdle /\ LimiterIdle /\ HelperIdle /\ TaskIdle /\ MainIdle
        /\ SeleniumIdle

SeleniumNext ==
    \/ fetch_with_selenium_begins
    \/ attempt_advances
    \/ attempt_returns
    \/ attempt_retries
    \/ attempt_gives_up
    \/ quit_selenium

SeleniumSpec == SeleniumSpecInit /\ [][SeleniumNext]_vars

\* one call of fetch_page with arbitrary arguments
FetchSpecInit == TrackerInit /\ CrawlIdle /\ FetchInit /\ LimiterIdle /\ HelperIdle /\ TaskIdle /\ MainIdle /\ SeleniumIdle

FetchNext ==
    \/ fetch_attempt_returns
    \/ fetch_attempt_retries
    \/ fetch_attempt_raises
    \/ fetch_falls_through

FetchSpec == FetchSpecInit /\ [][FetchNext]_vars

\* rate limiters used by tasks that call wait at arbitrary times
LimiterSpecInit == TrackerInit /\ CrawlIdle /\ FetchIdle /\ LimiterInit /\ HelperIdle /\ TaskIdle /\ MainIdle /\ SeleniumIdle

LimiterNext ==
    \/ \E t \in Tasks, domain \in Domains : wait_through(t, domain)
    \/ \E t \in Tasks, domain \in Domains : wait_sleeps(t, domain)
    \/ \E t \in Tasks : wait_wakes(t)
    \/ tick

LimiterSpec == LimiterSpecInit /\ [][LimiterNext]_vars

\* the helpers called on their own
HelperSpecInit == TrackerInit /\ CrawlIdle /\ FetchIdle /\ LimiterIdle /\ HelperInit /\ TaskIdle /\ MainIdle /\ SeleniumIdle

HelperNext ==
    \/ call_normalize_url
    \/ call_is_valid_url
    \/ call_process_page

HelperSpec == HelperSpecInit /\ [][HelperNext]_vars

(***************************************************************************)
(* Claims                                                                  *)
(***************************************************************************)
\* C1: no page is processed twice: process_page is started at most once for
\* each normalized URL in a crawl run, whatever the interleaving of the scrapers.
C1_NoPageProcessedTwice == \A url \in Pages : started[url] <= 1

NoDuplicates(q) == \A url \in Range(q) : Count(q, url) <= 1

\* C2: add_to_pool and add_bulk_to_pool are idempotent: a call of either
\* never makes a URL occur twice in a pool in which no URL occurred twice.
C2_AddIsIdempotent ==
    [][(last_op'.op \in {"add_to_pool", "add_bulk_to_pool"} /\ NoDuplicates(url_pool))
          => NoDuplicates(url_pool')]_vars

\* C3: in every state of the URLTracker no URL is both in url_pool and in
\* visited_urls.
C3_PendingAndVisitedDisjoint == Range(url_pool) \cap visited_urls = {}

\* C4: visited monotonicity: an add_to_pool or add_bulk_to_pool that runs
\* after mark_visited(u) returned does not append u: the pool holds as many
\* copies of u after the call as before it.
C4_VisitedMonotonicity ==
    [][\A url \in TrackerUrls :
          (url \in visited_urls /\ last_op'.op \in {"add_to_pool", "add_bulk_to_pool"})
              => Count(url_pool', url) = Count(url_pool, url)]_vars

\* C4 witness: add_to_pool(u) has just run for a visited u and the pool has no u
C4_Witness ==
    /\ last_op.op = "add_to_pool"
    /\ last_op.url \in visited_urls
    /\ last_op.url \notin Range(url_pool)
    /\ url_pool # <<>>

\* C5: the visited set is append-only: no URLTracker operation removes a
\* URL from visited_urls.
C5_VisitedAppendOnly == [][visited_urls \subseteq visited_urls']_vars

\* C5 witness: clear_pool has just run and every URL is still visited
C5_Witness ==
    /\ last_op.op = "clear_pool"
    /\ visited_urls = TrackerUrls

\* C6: every URL in any scraper's urls_to_process has the domain of the
\* base URL.
C6_OnlySeedDomainEnqueued ==
    \A w \in Scrapers : \A i \in 1..Len(urls_to_process[w]) :
        get_domain(urls_to_process[w][i][1]) = get_domain(base_url)

\* C7: the aggregate of a finished run holds the seed's record; for the
\* seed whose page links to /a and to https://o.c/b and depth 1 its keys
\* are exactly the seed and /a.
C7_AggregateHoldsSeedAndReached ==
    main_pc = "done" =>
        /\ Seed \in DOMAIN aggregate
        /\ (max_depth = 1 /\ site[Seed] = {PageA, Foreign})
               => DOMAIN aggregate = {Seed, PageA}

Backoff(n) == [k \in 1..n |-> f_initial_delay * pow2(k - 1)]

\* C9: a fetch_page call with max_retries = N >= 1 whose attempts all fail
\* makes exactly N attempts, sleeps initial_delay * 2^k after failed attempt
\* k = 0..N-2 and not after the last one, and then raises; there is never
\* an attempt N+1.
C9_RetryBackoff ==
    /\ f_attempts <= f_max_retries
    /\ f_pc = "loop" => f_attempts = f_attempt /\ f_sleeps = Backoff(f_attempts)
    /\ f_pc = "raised" =>
           f_attempts = f_max_retries /\ f_sleeps = Backoff(f_max_retries - 1)
    /\ (f_max_retries >= 1 /\ f_pc = "loop") => has_attempt
    /\ f_max_retries >= 1 => f_pc # "returned_none"

\* C9 witness: max_retries = 3, initial_delay = 1, three failed attempts,
\* delays 1 and 2, the error raised
C9_Witness ==
    /\ f_pc = "raised"
    /\ f_max_retries = 3 /\ f_initial_delay = 1
    /\ f_attempts = 3
    /\ f_sleeps = <<1, 2>>

\* C10: when fetch_page raised after its last attempt for a URL, the
\* record the scraper writes for it has an error description as content.
C10_FetchFailureRecordedAsError ==
    \A w \in Scrapers : \A url \in fetch_failed[w] :
        url \in DOMAIN results[w] => results[w][url].content = "error_message"

\* C11: a URL whose processing ended in the generic except clause of
\* scrape() is marked visited in the shared tracker.
C11_ErrorUrlMarkedVisited ==
    \A w \in Scrapers : \A url \in error_urls[w] : url \in visited_urls

\* C12: the aggregate of a finished run has an entry for every normalized
\* URL for which some scraper started process_page, the seed included.
C12_EveryAttemptedUrlHasAResult ==
    main_pc = "done" =>
        \A url \in Pages : started[url] > 0 => url \in DOMAIN aggregate

\* the number of running drivers a scraper holds
Live(driver) == IF driver = "live" THEN 1 ELSE 0

C14_NoDriverOutlivesItsScraper ==
    \A w \in Scrapers : pc[w] \in {"returned", "cancelled"} => selenium_driver[w] # "live"

\* C14 witness: one scraper returned with an empty queue and another was
\* cancelled, and the finally clause of each quit a running driver
C14_Witness ==
    \E w, v \in Scrapers :
        /\ pc[w] = "returned" /\ finally_quit[w]
        /\ pc[v] = "cancelled" /\ finally_quit[v]

\* two wait calls on the same limiter and the same domain
SameGate(i, j) ==
    /\ limiter_of[dispatches[i].task] = limiter_of[dispatches[j].task]
    /\ dispatches[i].domain = dispatches[j].domain

\* C15: rate limiter lower bound: when a wait call on a domain begins after
\* an earlier wait call on the same limiter and domain returned, the
\* timestamps the two record are at least min_delay apart, for every
\* 0 <= min_delay <= max_delay.
C15_SequentialWaitsMinDelayApart ==
    \A i, j \in 1..Len(dispatches) :
        (i < j /\ SameGate(i, j) /\ dispatches[j].after >= i)
            => dispatches[j].time - dispatches[i].time >= min_delay

\* C15 witness: min_delay 1, max_delay 2, a task called wait twice in a row
\* on one domain and the second call returned one tick after the first
C15_Witness ==
    /\ min_delay = 1 /\ max_delay = 2
    /\ \E i, j \in 1..Len(dispatches) :
        /\ i < j /\ dispatches[i].task = dispatches[j].task
        /\ dispatches[i].domain = dispatches[j].domain
        /\ dispatches[j].after >= i
        /\ dispatches[j].time - dispatches[i].time = 1

\* C16: wait is atomic per domain: any two wait calls on the same limiter
\* and domain, concurrent ones included, record timestamps at least
\* min_delay apart.
C16_ConcurrentWaitsMinDelayApart ==
    \A i, j \in 1..Len(dispatches) :
        (i < j /\ SameGate(i, j))
            => dispatches[j].time - dispatches[i].time >= min_delay

\* C17: when every task has a limiter of its own, as the scrapers of a
\* crawl have, the wait calls of two tasks for the same domain still record
\* timestamps at least min_delay apart.
C17_DomainRateBoundedAcrossWorkers ==
    (\A t \in Tasks : limiter_of[t] = t) =>
        \A i, j \in 1..Len(dispatches) :
            (/\ i < j /\ dispatches[i].task # dispatches[j].task
             /\ dispatches[i].domain = dispatches[j].domain)
                => dispatches[j].time - dispatches[i].time >= min_delay

\* C18: domains are independent: a step changes the entry of a limiter for
\* a domain only when a wait call on that limiter and domain returns in it;
\* a wait call that begins to sleep asks for a wake-up between min_delay and
\* max_delay after the entry of its own domain and writes nothing; a wait
\* call that returns without sleeping began at least min_delay after the
\* entry of its own domain.
C18_DomainsIndependent ==
    [][/\ \A l \in Limiters, d \in Domains :
             last_request_times'[l][d] # last_request_times[l][d]
                 => /\ Len(dispatches') = Len(dispatches) + 1
                    /\ limiter_of[dispatches'[Len(dispatches')].task] = l
                    /\ dispatches'[Len(dispatches')].domain = d
       /\ \A t \in Tasks :
             (wait_pc[t] = "idle" /\ wait_pc'[t] = "sleeping")
                 => /\ last_request_times' = last_request_times
                    /\ wait_call'[t].wake
                           - last_request_times[limiter_of[t]][wait_call'[t].domain]
                           \in min_delay..max_delay
       /\ \A t \in Tasks :
             (/\ wait_pc[t] = "idle" /\ Len(dispatches') = Len(dispatches) + 1
              /\ dispatches'[Len(dispatches')].task = t)
                 => now - last_request_times[limiter_of[t]][dispatches'[Len(dispatches')].domain]
                        >= min_delay]_vars

\* C18 witness: with min_delay at least 1 a wait call on one domain began
\* after a wait call of the same limiter on the other domain had returned
\* and returned in the same tick, without sleeping
C18_Witness ==
    /\ min_delay >= 1
    /\ \E i, j \in 1..Len(dispatches) :
        /\ i < j /\ dispatches[j].after >= i
        /\ limiter_of[dispatches[i].task] = limiter_of[dispatches[j].task]
        /\ dispatches[i].domain # dispatches[j].domain
        /\ dispatches[j].time = dispatches[i].time

\* C19: single-page mode: with depth 0 no scraper of the second phase is
\* created, no queue ever holds anything but the seed, process_page is
\* started for the seed only and once, and the finished run's aggregate is
\* the seed's record.
C19_SinglePageMode ==
    max_depth = 0 =>
        /\ \A w \in Workers : pc[w] = "not_created" /\ urls_to_process[w] = <<>>
        /\ Range(urls_to_process[0]) \subseteq {<<base_url, 0>>}
        /\ \A url \in Pages \ {base_url} : started[url] = 0
        /\ started[base_url] <= 1
        /\ main_pc = "done" => started[base_url] = 1 /\ DOMAIN aggregate = {base_url}

\* C19 witness: a finished run with depth 0 whose seed page has links,
\* listed in the seed's record
C19_Witness ==
    /\ max_depth = 0 /\ main_pc = "done"
    /\ site[base_url] # {}
    /\ aggregate[base_url].discovered_urls # {}

\* the number of process_page calls started for the URLs of S
RECURSIVE StartedIn(_)
StartedIn(S) ==
    IF S = {} THEN 0
    ELSE LET url == CHOOSE u \in S : TRUE
         IN  started[url] + StartedIn(S \ {url})

\* C20: the number of pages processed by all scrapers of a run never
\* exceeds MAX_URLS_TO_SCRAPE.
C20_PageCountCapped == StartedIn(Pages) <= MAX_URLS_TO_SCRAPE

\* C21: under fair scheduling every scrape loop that was started exits and
\* run_scraping ends with its output: the merge of the workers' results, or
\* the initial scraper's results when no worker was started.
C21_CrawlTerminates ==
    <>[](/\ main_pc = "done"
         /\ \A w \in Scrapers : pc[w] \in {"not_created", "returned"}
         /\ aggregate = IF pc[1] = "returned" THEN collate(EmptyDict, 1) ELSE results[0])

\* the workers ran, one of them queued a link it found, and the run ended
C21_Witness ==
    /\ main_pc = "done"
    /\ \A w \in Scrapers : pc[w] = "returned"
    /\ \E w \in Workers : Cardinality(DOMAIN results[w]) > 1

\* C22: with force 'sel' no attempt issues a static GET and every attempt
\* given a driver calls the renderer; with force 'req' no attempt calls the
\* renderer and every attempt issues the static GET.
C22_ForcedMethodObeyed ==
    /\ f_force = "sel" =>
           /\ f_static_calls = 0
           /\ f_sel_calls = IF f_driver THEN f_attempts ELSE 0
    /\ f_force = "req" =>
           /\ f_sel_calls = 0
           /\ f_static_calls = f_attempts

\* a static-only call whose second attempt got a content that looks dynamic
C22_Witness ==
    /\ f_force = "req" /\ f_driver
    /\ f_attempts = 2
    /\ f_last.static_ok /\ is_dynamic_content(f_last.content)
    /\ f_pc = "returned"

\* the last attempt went on to rendered acquisition: it called the renderer,
\* or raised because no driver was provided (content_processor.py:115-116)
Escalated ==
    \/ f_last.sel = 1
    \/ ~f_driver /\ ~f_last.ok

\* C23: in adaptive mode an attempt whose static fetch succeeded goes on to
\* rendered acquisition exactly when the visible text is shorter than 500
\* characters: it does at 40, it does not at 500 and at 2000.
C23_EscalatesBelowThreshold ==
    (f_force = "None" /\ f_last.static_ok /\ f_last.content.decodes) =>
        /\ Escalated <=> f_last.content.text_len < 500
        /\ f_last.content.text_len = 40 => Escalated
        /\ f_last.content.text_len \in {500, 2000} => ~Escalated

\* an adaptive attempt with a driver whose static text has exactly 500
\* characters returned the static content
C23_Witness ==
    /\ f_force = "None" /\ f_driver
    /\ f_last.static_ok /\ f_last.content.decodes
    /\ f_last.content.text_len = 500
    /\ f_last.ok /\ f_last.sel = 0

\* process_page was called and picked an extractor
Dispatched == h_args.fn = "process_page" /\ h_ret # <<>>

\* the declared type is application/pdf
TypeIsPdf == lower(h_args.content_type) = <<"a", "p", "p", "l", "i", "c", "a", "t", "i", "o", "n", "/", "p", "d", "f">>

\* the URL ends in .pdf
UrlEndsInPdf == endswith(lower(h_args.url), <<".", "p", "d", "f">>)

\* the HEAD probe of is_pdf_url reports a PDF
HeadConfirmsPdf ==
    ~h_args.head.raises /\ contains(lower(h_args.head.content_type), <<"a", "p", "p", "l", "i", "c", "a", "t", "i", "o", "n", "/", "p", "d", "f">>)

\* C24: content declared application/pdf goes to the PDF extractor whatever
\* the URL; a URL ending in .pdf whose type is not application/pdf goes to
\* the PDF extractor; a type that is neither HTML nor PDF (the URL not
\* ending in .pdf) gets the placeholder and no discovered links.
C24_ContentDispatch ==
    Dispatched =>
        /\ TypeIsPdf => h_ret[1].extractor = "extract_text_from_pdf"
        /\ UrlEndsInPdf /\ ~TypeIsPdf => h_ret[1].extractor = "extract_text_from_pdf"
        /\ ~is_html_type(h_args.content_type) /\ ~TypeIsPdf /\ ~UrlEndsInPdf =>
               /\ h_ret[1].extractor = "unsupported"
               /\ h_ret[1].discovered_urls = {}

\* C24, amended: HTML content goes to the HTML extractor even when the URL
\* ends in .pdf; content that is not HTML goes to the PDF extractor when its
\* type is application/pdf, the URL ends in .pdf or the HEAD probe reports
\* a PDF, and gets the placeholder otherwise; content that is not HTML has
\* the links the renderer returned and no others.
C24_DispatchByTypeThenUrl ==
    Dispatched =>
        /\ h_ret[1].extractor =
               IF is_html_type(h_args.content_type) THEN "extract_text_from_html"
               ELSE IF TypeIsPdf \/ UrlEndsInPdf \/ HeadConfirmsPdf
                    THEN "extract_text_from_pdf"
               ELSE "unsupported"
        /\ ~is_html_type(h_args.content_type) =>
               h_ret[1].discovered_urls = h_args.fetched_urls

\* HTML content fetched from a URL that ends in .pdf was given to the HTML
\* extractor
C24_Witness ==
    /\ Dispatched
    /\ UrlEndsInPdf /\ is_html_type(h_args.content_type)
    /\ h_ret[1].extractor = "extract_text_from_html"
    /\ h_ret[1].discovered_urls # {}

\* C25: normalize_url(normalize_url(u)) = normalize_url(u) for every URL u.
C25_NormalizeIdempotent ==
    (h_args.fn = "normalize_url" /\ Len(h_ret) = 2) => h_ret[2] = h_ret[1]

\* a lower-case URL with scheme and host and without query, fragment and
\* trailing slash
IsPlainUrl(u) ==
    /\ lower(u) = u
    /\ urlparse(u).scheme # <<>> /\ urlparse(u).netloc # <<>>
    /\ Range(u) \cap {"?", "#"} = {}
    /\ u[Len(u)] # "/"

\* C26: for a lower-case URL u, normalize_url returns u for u itself and
\* for u?query=1, u/ and u#fragment.
C26_DropsQueryFragmentSlashOnly ==
    (h_args.fn = "normalize_url" /\ h_ret # <<>>) =>
        \A u \in {url \in NormalizeInputs : IsPlainUrl(url)} :
            h_args.url \in {u, u \o <<"?", "q", "u", "e", "r", "y", "=", "1">>, u \o <<"/">>, u \o <<"#", "f", "r", "a", "g", "m", "e", "n", "t">>}
                => h_ret[1] = [raises |-> FALSE, value |-> u]

\* C27: normalize_url("HTTP://Example.com/Page/") returns
\* "https://example.com/page".
C27_CanonicalFormExample ==
    (/\ h_args.fn = "normalize_url"
     /\ h_args.url = <<"H", "T", "T", "P", ":", "/", "/", "E", "x", "a", "m", "p", "l", "e", ".", "c", "o", "m", "/", "P", "a", "g", "e", "/">>
     /\ h_ret # <<>>) =>
        h_ret[1] = [raises |-> FALSE, value |-> <<"h", "t", "t", "p", "s", ":", "/", "/", "e", "x", "a", "m", "p", "l", "e", ".", "c", "o", "m", "/", "p", "a", "g", "e">>]

\* the text has neither scheme nor host
IsNotAUrl(u) == urlparse(u).scheme = <<>> /\ urlparse(u).netloc = <<>>

\* the path ends in "." and a media extension
HasMediaExtension(u) ==
    \E extension \in image_extensions :
        endswith(lower(urlparse(u).path), <<".">> \o extension)

\* C28: is_valid_url(u, base) is true exactly when the domains are equal and
\* the path of u has no media extension; a URL with a media extension, a URL
\* of another domain and a string that is not a URL are not admitted.
C28_SameSiteFilter ==
    (h_args.fn = "is_valid_url" /\ h_ret # <<>>) =>
        /\ h_ret[1] <=> (/\ get_domain(h_args.url) = get_domain(h_args.base_url)
                         /\ ~HasMediaExtension(h_args.url))
        /\ HasMediaExtension(h_args.url) => ~h_ret[1]
        /\ get_domain(h_args.url) # get_domain(h_args.base_url) => ~h_ret[1]
        /\ IsNotAUrl(h_args.url) => ~h_ret[1]

\* the last iteration that began made the HEAD probe
Probed == last_probe.url # <<>>

\* the answer to the probe names an image type
ProbeSaysImage ==
    ~last_probe.head.raises /\ startswith(last_probe.head.content_type, <<"i", "m", "a", "g", "e", "/">>)

\* C29: a worker skips a URL as media only when the URL is suspicious and
\* the HEAD probe confirms an image; a suspicious URL whose probe is
\* negative or fails goes on to process_page; a URL that is not suspicious
\* is not probed.
C29_MediaSkipNeedsBoth ==
    /\ last_probe.skipped =>
           /\ HasMediaExtension(last_probe.url)
           /\ ProbeSaysImage
    /\ Probed /\ ~ProbeSaysImage =>
           /\ ~last_probe.skipped
           /\ started[NormalizeUrl[last_probe.url]] > 0
    /\ Probed => HasMediaExtension(last_probe.url)

\* a worker probed the media link, the request failed, and the worker
\* fetched the URL like a page
C29_Witness ==
    /\ last_probe.url = Image
    /\ last_probe.head.raises
    /\ \E w \in Workers : pc[w] = "process_page" /\ current[w][1] = Image

\* C30: a record is written once for a normalized URL and is not written
\* again: no step changes or removes an entry of a scraper's results, and
\* the merge of the workers' results replaces no entry by a different one.
C30_RecordsWrittenOnce ==
    [][/\ \A w \in Scrapers : \A k \in DOMAIN results[w] :
              k \in DOMAIN results'[w] /\ results'[w][k] = results[w][k]
       /\ (main_pc = "gather" /\ main_pc' = "done") =>
              \A w1, w2 \in Workers : \A k \in DOMAIN results[w1] \cap DOMAIN results[w2] :
                  results[w1][k] = results[w2][k]]_vars

C32_FrontierStepsAtomic ==
    [][/\ (last_op'.op = "get_next_url" /\ url_pool' # url_pool)
           => url_pool = <<last_op'.url>> \o url_pool'
       /\ (last_op'.op = "add_to_pool" /\ url_pool' # url_pool)
           => last_op'.url \notin visited_urls]_vars

\* C32 witness: task 2 has just called add_to_pool for a URL that had been
\* marked visited, with entries pending, and nothing was appended
C32_Witness ==
    /\ last_op.op = "add_to_pool"
    /\ last_op.task = 2
    /\ last_op.url \in visited_urls
    /\ last_op.url \notin Range(url_pool)
    /\ url_pool # <<>>
\* the sitemap bootstrap fails: no sitemap is found, the text is not XML,
\* or a <loc> element has no text
SitemapFails ==
    \/ ~m_in.sitemap.found
    \/ ~m_in.sitemap.well_formed
    \/ \E i \in 1..Len(m_in.sitemap.locs) : ~m_in.sitemap.locs[i].has_text

\* the command line is one main accepts: "https://e.c" or "e.c", depth >= 0
ConfigAccepted == m_in.url \in {Seed, <<"e", ".", "c">>} /\ m_in.depth >= 0

\* C33: when the sitemap bootstrap fails and the command line is valid,
\* main gets an empty sitemap URL set and calls run_scraping.
C33_SitemapFailureNotFatal ==
    (m_pc = "done" /\ SitemapFails /\ ConfigAccepted)
        => (m_locals.sitemap_urls = <<>> /\ \E i \in 1..Len(m_events) : m_events[i] = "run_scraping")
\* the url argument names no host: urlparse rejects it, or it has neither
\* a host nor a path ("" and "https://")
BaseUrlInvalid ==
    IF normalize_url_raises(m_in.url) THEN TRUE
    ELSE urlparse(m_in.url).netloc = <<>> /\ urlparse(m_in.url).path = <<>>

\* C34: when the base URL is invalid or the depth is negative, main never
\* calls run_scraping and never saves an output file.
C34_ConfigErrorsRejectedFirst ==
    (m_pc \in {"done", "crashed", "run_scraping"} /\ (BaseUrlInvalid \/ m_in.depth < 0))
        => \A i \in 1..Len(m_events) : m_events[i] \notin {"run_scraping", "save_output"}
\* the entries a step added at the end of the queue of scraper w
Enqueued(w) ==
    {urls_to_process'[w][i] : i \in (Len(urls_to_process[w]) + 1)..Len(urls_to_process'[w])}

\* C35: no scraper processes a URL at a depth above max_depth; a URL is
\* enqueued at depth d+1 only by the iteration that processed a page at
\* depth d < max_depth; the batches of the second phase are at depth 1 and
\* are built only when max_depth >= 1.
C35_DepthBound ==
    [][\A w \in Scrapers :
          /\ pc'[w] = "process_page" => current'[w][2] <= max_depth
          /\ pc[w] = "process_page"
                => \A entry \in Enqueued(w) :
                      entry[2] = current[w][2] + 1 /\ current[w][2] < max_depth
          /\ (pc[w] = "not_created" /\ pc'[w] = "loop")
                => (max_depth >= 1 /\ \A i \in 1..Len(urls_to_process'[w]) :
                                        urls_to_process'[w][i][2] = 1)]_vars

\* C35 witness: a worker processes a page at depth max_depth = 2, which the
\* page processed at depth 1 enqueued
C35_Witness ==
    \E w \in Workers :
        /\ pc[w] = "process_page"
        /\ max_depth = 2
        /\ current[w][2] = max_depth
\* the URLs of the batch scraper w starts with
Batch(w) == {urls_to_process'[w][i][1] : i \in 1..Len(urls_to_process'[w])}

\* C36: the step of run_scraping that builds the batches gives the
\* MAX_SIMULTANEOUS_SCRAPERS workers pairwise disjoint batches without
\* repetitions whose union is the set of discovered same-site URLs, and
\* starts every worker; a worker whose batch is empty returns at once with
\* an empty result.
C36_BatchesPartitionDiscovered ==
    [][/\ (main_pc = "run_init_scraper" /\ main_pc' = "gather")
           => /\ \A w1, w2 \in Workers : w1 # w2 => Batch(w1) \cap Batch(w2) = {}
              /\ UNION {Batch(w) : w \in Workers} = initial_discovered_urls
              /\ \A w \in Workers : Len(urls_to_process'[w]) = Cardinality(Batch(w))
              /\ \A w \in Workers : pc'[w] = "loop"
              /\ Cardinality(Workers) = MAX_SIMULTANEOUS_SCRAPERS
       /\ \A w \in Workers :
              (pc[w] = "loop" /\ urls_to_process[w] = <<>> /\ results[w] = EmptyDict)
                  => (pc'[w] \in {"loop", "returned"} /\ results'[w] = EmptyDict)]_vars

\* C36 witness: one URL was discovered; the first worker has its record
\* and the other worker, whose batch was empty, returned an empty result
C36_Witness ==
    /\ main_pc = "gather"
    /\ Cardinality(initial_discovered_urls) = 1
    /\ results[1] # EmptyDict
    /\ pc[MAX_SIMULTANEOUS_SCRAPERS] = "returned"
    /\ results[MAX_SIMULTANEOUS_SCRAPERS] = EmptyDict
\* C37: for every scraper, in every state of its loop: processed_urls and
\* error_urls are disjoint, the keys of results are the URLs of the two
\* sets, and every URL of processed_urls is in the visited set of the
\* tracker.
C37_WorkerBookkeeping ==
    \A w \in Scrapers :
        /\ processed_urls[w] \cap error_urls[w] = {}
        /\ DOMAIN results[w] = processed_urls[w] \cup error_urls[w]
        /\ processed_urls[w] \subseteq visited_urls

\* C37 witness: a worker is between two iterations with a processed URL
\* and an error URL
C37_Witness ==
    \E w \in Workers :
        /\ pc[w] = "loop"
        /\ processed_urls[w] # {}
        /\ error_urls[w] # {}
\* C38: in a call of fetch_with_selenium, every attempt after the first
\* runs on a WebDriver that is running and that is not the one the attempt
\* before it ran on.
C38_RetriesRunOnNewDriver ==
    \A i \in 2..Len(sd_used) :
        sd_used[i].running /\ sd_used[i].driver # sd_used[i - 1].driver
\* C39: a call of fetch_page that has ended either returned the triple of
\* an attempt that succeeded or raised the error of its last attempt, for
\* every max_retries, 0 included.
C39_FetchReturnsOrRaises ==
    f_pc \notin {"idle", "loop"} =>
        \/ f_pc = "returned" /\ f_attempts >= 1 /\ f_last.ok
        \/ f_pc = "raised" /\ f_attempts >= 1 /\ ~f_last.ok
====
